---------------------------- MODULE Spec2Model ----------------------------
(***************************************************************************)
(* A model of the account-isolation / rate-limited access gateway:         *)
(*   - RateLimiter      (src/src/api/rate_limiter.py)                      *)
(*   - AccountService   (src/src/services/account_service.py)              *)
(*   - browser wrapper  (src/src/automation/browser/browser_wrapper.py)    *)
(*                                                                         *)
(* Each component has its own specification (SpecRL, SpecAS, SpecBW); the  *)
(* variables of the other components do not change under it.  Time is      *)
(* counted in clock ticks; every time.time() call of the code reads the    *)
(* clock anew, so the clock may advance between two steps of one call.     *)
(***************************************************************************)
EXTENDS Integers, Sequences, FiniteSets, TLC

(***************************************************************************)
(* Bounds of the model.                                                    *)
(***************************************************************************)
\* Clock resolution: the clock is counted in ticks of 1/TicksPerSec second,
\* so that int() of a remaining time truncates a fraction.
TicksPerSec == 2
\* The clock advances at most this many times in a behaviour.
MaxAdvances == 2
\* At most this many acquisitions are granted in a behaviour.
MaxGrants == 3
\* At most this many add_account / update_account / remove_account /
\* update_accounts calls are made in a behaviour.
MaxCalls == 2
\* At most this many event loops are created in a behaviour.
MaxLoops == 3
MaxUse == 3
MaxConfigChanges == 1
MaxSessionEvents == 2
MaxChecks == 3
MaxDay == 8
MaxMarks == 2
RetentionDays == 7
MaxAttempts == 3
MaxRetryCalls == 2

(***************************************************************************)
(* Program constants.                                                      *)
(***************************************************************************)
\* rate_limiter.py:41  current_time - self.minute_requests[0] > 60
MinuteHorizon == 60
\* rate_limiter.py:37  current_time - self.hourly_requests[0] > 3600
HourHorizon == 3600

\* The horizons in clock ticks.
MinuteTicks == MinuteHorizon * TicksPerSec
HourTicks == HourHorizon * TicksPerSec

\* Threads calling into the limiter.
RLThreads == {"t1", "t2"}
\* Threads calling into the account service.
ASThreads == {"a1", "a2"}
\* The account identifiers in use.
AccountIds == {"X", "Y"}
\* No thread: the value of a free lock.
NoThread == "none"
\* Threads calling into the browser wrapper.
BWThreads == {"w1", "w2"}
\* No loop: _thread_local has no attribute loop, or it is None.
NoLoop == 0

\* The amounts the clock may advance by in one step (ticks): a fraction of a
\* second; just under, exactly and just over a minute; the rest of an hour.
Deltas == {1, MinuteTicks - 1, MinuteTicks, MinuteTicks + 1,
           HourTicks - MinuteTicks - 1}

\* The limiter configurations examined.
Configs == {[requests_per_minute |-> 1, requests_per_hour |-> 2],
            [requests_per_minute |-> 1, requests_per_hour |-> 3],
            [requests_per_minute |-> 2, requests_per_hour |-> 3]}

VARIABLES
  \* ---- RateLimiter ----
  now,               \* time.time(), in ticks
  advances,          \* how often the clock advanced (bounded)
  requests_per_hour,
  requests_per_minute,
  hourly_requests,   \* deque of timestamps
  minute_requests,   \* deque of timestamps
  lock,              \* RateLimiter.lock: the thread holding it, or NoThread
  pc,                \* per thread: where it is in acquire / get_wait_time
  wait,              \* per thread: the wait argument of its acquire call
  nested,            \* per thread: inside the recursive acquire(wait=False)
  wake,              \* per thread: when its time.sleep() may end
  pruned_at,         \* per thread: current_time of its last _clean_old_requests
  ret,               \* per thread: what its last call returned or raised
  granted,           \* history: the timestamp of every grant, in order
  \* ---- AccountService ----
  accounts,          \* dict account_id -> Account
  clients,           \* dict account_id -> monitoring InstagramClient
  posting_clients,   \* dict account_id -> posting InstagramClient
  svc_lock,          \* AccountService.lock: the thread holding it, or NoThread
  spc,               \* per thread: where it is in its AccountService call
  sarg,              \* per thread: the argument of its call
  sres,              \* per thread: what its last call returned or raised
  calls,             \* how many add / update / remove calls were made (bounded)
  pre,               \* the registry as it was when the lock holder's call began
  iter,              \* per thread: the dict iterator of its _initialize_clients
  \* ---- browser wrapper ----
  thread_local,      \* _thread_local.loop, per slot: a loop or NoLoop
  asyncio_loop,      \* per thread: the loop given to asyncio.set_event_loop
  loops_created,     \* how many loops asyncio.new_event_loop() has made
  loop_owner,        \* history: per loop, the thread that created it
  loop_closed,       \* the loops that are closed
  pending,           \* the open loops that have pending tasks
  bpc,               \* per thread: idle, or inside run_until_complete
  cur,               \* per thread: the loop its run_until_complete drives
  bres,              \* per thread: how its last run ended, and on which loop
  tres,              \* per thread: what its teardown did, until its next run ends
  \* ---- AccountService.verify_account ----
  vpc,               \* per thread: idle, or inside client.get_account_info
  varg,              \* per thread: the account_id of its verify_account call
  vres,              \* per thread: what its last verify_account returned or raised
  \* ---- AccountService: the limiters of its clients ----
  built,             \* AccountService.__init__ has run
  rate_limiter,          \* self.rate_limiter: a limiter or NoLimiter
  rate_limiter_posting,  \* self.rate_limiter_posting: a limiter or NoLimiter
  consumed,          \* per limiter: how many acquisitions it has granted
  last_via,          \* the client through which the last acquisition was made
  \* ---- ProxyManager ----
  pm_built,          \* ProxyManager.__init__ has run
  pm_accounts,       \* self.accounts: dict account_id -> the account's proxy
  proxy_cache,       \* self.proxy_cache: dict account_id -> proxy URL
  pm_changes,        \* how often an account's proxy settings changed (bounded)
  ppc,               \* per thread: where it is in its ProxyManager call
  pcall,             \* per thread: the call it is in and its local variables
  pres,              \* per thread: what its last call returned or raised
  \* ---- BrowserSessionManager ----
  session_files,     \* the files of sessions_dir, per path
  context_cookies,   \* per browser context: its cookies
  last_save,         \* history: per account, its last save_session call
  sm_events,         \* how often a context's cookies or a file changed from outside (bounded)
  sm_res,            \* what the last save_session / load_session did
  \* ---- BrowserSessionManager.is_logged_in ----
  li_pc,             \* where the is_logged_in call is
  li_nav,            \* what page.goto did
  li_probed,         \* the wait_for_selector calls made so far, in order
  li_ret,            \* what is_logged_in returned
  li_calls,          \* number of is_logged_in calls (bounded)
  \* ---- DMTracking ----
  tracking,          \* DMTracking._tracking
  tracking_file,     \* what data/dm_tracking.json holds
  utc_day,           \* the current UTC date
  marked,            \* history: the mark_comment_processed calls made
  dt_res,            \* what the last DMTracking call did
  \* ---- BrowserManager ----
  browsers,          \* the accounts with an entry in BrowserManager.browsers
  contexts,          \* the accounts with an entry in BrowserManager.contexts
  pages,             \* the accounts with an entry in BrowserManager.pages
  playwright_instance,\* BrowserManager._playwright_instance: "none" or "started"
  bm_res,            \* what the last BrowserManager call did
  \* ---- RetryPolicy ----
  rp_pc,             \* where the call under the retry policy is
  rp_n,              \* the policy's number of attempts N
  rp_attempts,       \* the outcomes of the attempts made, in order
  rp_outcome,        \* the RetryOutcome of the call
  rp_calls           \* number of calls made under a policy (bounded)

rlvars == <<now, advances, requests_per_hour, requests_per_minute,
            hourly_requests, minute_requests, lock, pc, wait, nested, wake,
            pruned_at, ret, granted>>

registry == <<accounts, clients, posting_clients>>

asvars == <<accounts, clients, posting_clients, svc_lock, spc, sarg, sres,
            calls, pre, iter>>

bwvars == <<thread_local, asyncio_loop, loops_created, loop_owner,
            loop_closed, pending, bpc, cur, bres, tres>>

vavars == <<vpc, varg, vres>>

cpvars == <<built, rate_limiter, rate_limiter_posting, consumed, last_via>>

\* The state of the components outside the limiter, the registry and the
\* browser wrapper.
pmvars == <<pm_built, pm_accounts, proxy_cache, pm_changes, ppc, pcall, pres>>
smvars == <<session_files, context_cookies, last_save, sm_events, sm_res>>
livars == <<li_pc, li_nav, li_probed, li_ret, li_calls>>
dtvars == <<tracking, tracking_file, utc_day, marked, dt_res>>
bmvars == <<browsers, contexts, pages, playwright_instance, bm_res>>
rpvars == <<rp_pc, rp_n, rp_attempts, rp_outcome, rp_calls>>
extvars == <<vavars, cpvars, pmvars, smvars, livars, dtvars, bmvars, rpvars>>

\* What a step of verify_account, and a step of a client, leaves alone.
notva == <<rlvars, asvars, bwvars, cpvars, pmvars, smvars, livars, dtvars, bmvars, rpvars>>
notcp == <<rlvars, asvars, bwvars, vavars, pmvars, smvars, livars, dtvars, bmvars, rpvars>>
notpm == <<rlvars, asvars, bwvars, vavars, cpvars, smvars, livars, dtvars, bmvars, rpvars>>
notsm == <<rlvars, asvars, bwvars, vavars, cpvars, pmvars, livars, dtvars, bmvars, rpvars>>
notli == <<rlvars, asvars, bwvars, vavars, cpvars, pmvars, smvars, dtvars, bmvars, rpvars>>
notdt == <<rlvars, asvars, bwvars, vavars, cpvars, pmvars, smvars, livars, bmvars, rpvars>>
notbm == <<rlvars, asvars, bwvars, vavars, cpvars, pmvars, smvars, livars, dtvars, rpvars>>
notrp == <<rlvars, asvars, bwvars, vavars, cpvars, pmvars, smvars, livars, dtvars, bmvars>>

vars == <<rlvars, asvars, bwvars, extvars>>

(***************************************************************************)
(* Helpers.                                                                *)
(***************************************************************************)
\* Python's int() of the float n/d (d > 0): truncation towards zero.
IntTrunc(n, d) == IF n >= 0 THEN n \div d ELSE -((-n) \div d)

\* while q and current_time - q[0] > horizon: q.popleft()
RECURSIVE PopOld(_, _, _)
PopOld(q, current_time, horizon) ==
  IF q # <<>> /\ current_time - Head(q) > horizon
  THEN PopOld(Tail(q), current_time, horizon)
  ELSE q

\* A prune of the hour window that keeps nothing older than the present.
CleanHourly_KeepsNothing(q, current_time) == PopOld(q, current_time, 0)

\* _clean_old_requests, on each window.
CleanHourly(q, current_time) == PopOld(q, current_time, HourTicks)
\* A prune that forgets the minute window.
CleanMinute_Skipped(q, current_time) == q

CleanMinute(q, current_time) == PopOld(q, current_time, MinuteTicks)

NoRet == [kind |-> "none", window |-> "none", value |-> 0]

(***************************************************************************)
(* RateLimiter: initial state (__init__).                                  *)
(***************************************************************************)
InitRL ==
  /\ now = 0
  /\ advances = 0
  /\ \E c \in Configs :
       /\ requests_per_minute = c.requests_per_minute
       /\ requests_per_hour = c.requests_per_hour
  /\ hourly_requests = <<>>
  /\ minute_requests = <<>>
  /\ lock = NoThread
  /\ pc = [t \in RLThreads |-> "idle"]
  /\ wait = [t \in RLThreads |-> FALSE]
  /\ nested = [t \in RLThreads |-> FALSE]
  /\ wake = [t \in RLThreads |-> 0]
  /\ pruned_at = [t \in RLThreads |-> 0]
  /\ ret = [t \in RLThreads |-> NoRet]
  /\ granted = <<>>

(***************************************************************************)
(* The clock.                                                              *)
(***************************************************************************)
Tick(d) ==
  /\ UNCHANGED <<asvars, bwvars, extvars>>
  /\ advances < MaxAdvances
  /\ now' = now + d
  /\ advances' = advances + 1
  /\ UNCHANGED <<requests_per_hour, requests_per_minute, hourly_requests,
                 minute_requests, lock, pc, wait, nested, wake, pruned_at,
                 ret, granted>>

(***************************************************************************)
(* A thread calls acquire(wait=w) or get_wait_time().                      *)
(***************************************************************************)
CallAcquire(t, w) ==
  /\ UNCHANGED <<asvars, bwvars, extvars>>
  /\ pc[t] = "idle"
  /\ Len(granted) < MaxGrants
  /\ pc' = [pc EXCEPT ![t] = "lock"]
  /\ wait' = [wait EXCEPT ![t] = w]
  /\ nested' = [nested EXCEPT ![t] = FALSE]
  /\ ret' = [ret EXCEPT ![t] = NoRet]
  /\ UNCHANGED <<now, advances, requests_per_hour, requests_per_minute,
                 hourly_requests, minute_requests, lock, wake, pruned_at,
                 granted>>

CallGetWaitTime(t) ==
  /\ UNCHANGED <<asvars, bwvars, extvars>>
  /\ pc[t] = "idle"
  /\ pc' = [pc EXCEPT ![t] = "lock_gwt"]
  /\ wait' = [wait EXCEPT ![t] = FALSE]
  /\ nested' = [nested EXCEPT ![t] = FALSE]
  /\ ret' = [ret EXCEPT ![t] = NoRet]
  /\ UNCHANGED <<now, advances, requests_per_hour, requests_per_minute,
                 hourly_requests, minute_requests, lock, wake,
                 pruned_at, granted>>

(***************************************************************************)
(* with self.lock: self._clean_old_requests()                              *)
(* threading.Lock is not reentrant: the lock is taken only when free, also *)
(* by the thread that holds it (the recursive call of acquire).            *)
(***************************************************************************)
\* A lock that is taken without looking at its holder.
LockFree_Unchecked == TRUE

LockFree == lock = NoThread

Enter(t) ==
  /\ UNCHANGED <<asvars, bwvars, extvars>>
  /\ pc[t] \in {"lock", "lock_gwt"}
  /\ LockFree
  /\ lock' = t
  /\ hourly_requests' = CleanHourly(hourly_requests, now)
  /\ minute_requests' = CleanMinute(minute_requests, now)
  /\ pruned_at' = [pruned_at EXCEPT ![t] = now]
  /\ pc' = [pc EXCEPT ![t] = IF pc[t] = "lock" THEN "check_hour" ELSE "wait_time"]
  /\ UNCHANGED <<now, advances, requests_per_hour, requests_per_minute,
                 wait, nested, wake, ret, granted>>


(***************************************************************************)
(* acquire, lines 57-72: the hourly limit.                                 *)
(***************************************************************************)
\* sleep_time / retry_after arithmetic: horizon - (time.time() - q[0]).
Remaining(q, horizon) == horizon - (now - Head(q))

\* retry_after=int(horizon - (time.time() - q[0])), in seconds.
RetryAfter(q, horizon) == IntTrunc(Remaining(q, horizon), TicksPerSec)

HourSaturated == Len(hourly_requests) >= requests_per_hour
MinuteSaturated == Len(minute_requests) >= requests_per_minute

CheckHour(t) ==
  /\ UNCHANGED <<asvars, bwvars, extvars>>
  /\ pc[t] = "check_hour"
  /\ IF HourSaturated
     THEN IF wait[t]
          THEN IF Remaining(hourly_requests, HourTicks) > 0
               THEN \* time.sleep(sleep_time), the lock still held
                    /\ pc' = [pc EXCEPT ![t] = "sleep"]
                    /\ wake' = [wake EXCEPT ![t] =
                                  now + Remaining(hourly_requests, HourTicks)]
                    /\ UNCHANGED <<lock, ret>>
               ELSE \* sleep_time <= 0: falls out of the if, to the minute check
                    /\ pc' = [pc EXCEPT ![t] = "check_minute"]
                    /\ UNCHANGED <<lock, ret, wake>>
          ELSE \* raise RateLimitError(retry_after=...); the with block ends
               /\ ret' = [ret EXCEPT ![t] =
                            [kind |-> "denied", window |-> "hour",
                             value |-> RetryAfter(hourly_requests, HourTicks)]]
               /\ lock' = NoThread
               /\ pc' = [pc EXCEPT ![t] = "idle"]
               /\ UNCHANGED wake
     ELSE /\ pc' = [pc EXCEPT ![t] = "check_minute"]
          /\ UNCHANGED <<lock, ret, wake>>
  /\ pruned_at' = IF pc'[t] = "idle" THEN [pruned_at EXCEPT ![t] = 0] ELSE pruned_at
  /\ wait' = IF pc'[t] = "idle" THEN [wait EXCEPT ![t] = FALSE] ELSE wait
  /\ UNCHANGED <<now, advances, requests_per_hour, requests_per_minute,
                 hourly_requests, minute_requests, nested, granted>>

(***************************************************************************)
(* acquire, lines 74-89: the minute limit.                                 *)
(***************************************************************************)
CheckMinute(t) ==
  /\ UNCHANGED <<asvars, bwvars, extvars>>
  /\ pc[t] = "check_minute"
  /\ IF MinuteSaturated
     THEN IF wait[t]
          THEN IF Remaining(minute_requests, MinuteTicks) > 0
               THEN /\ pc' = [pc EXCEPT ![t] = "sleep"]
                    /\ wake' = [wake EXCEPT ![t] =
                                  now + Remaining(minute_requests, MinuteTicks)]
                    /\ UNCHANGED <<lock, ret>>
               ELSE \* sleep_time <= 0: falls through to "Record this request"
                    /\ pc' = [pc EXCEPT ![t] = "record"]
                    /\ UNCHANGED <<lock, ret, wake>>
          ELSE /\ ret' = [ret EXCEPT ![t] =
                            [kind |-> "denied", window |-> "minute",
                             value |-> RetryAfter(minute_requests, MinuteTicks)]]
               /\ lock' = NoThread
               /\ pc' = [pc EXCEPT ![t] = "idle"]
               /\ UNCHANGED wake
     ELSE /\ pc' = [pc EXCEPT ![t] = "record"]
          /\ UNCHANGED <<lock, ret, wake>>
  /\ pruned_at' = IF pc'[t] = "idle" THEN [pruned_at EXCEPT ![t] = 0] ELSE pruned_at
  /\ wait' = IF pc'[t] = "idle" THEN [wait EXCEPT ![t] = FALSE] ELSE wait
  /\ UNCHANGED <<now, advances, requests_per_hour, requests_per_minute,
                 hourly_requests, minute_requests, nested, granted>>

(***************************************************************************)
(* acquire, lines 91-96: record the request, return True.                  *)
(***************************************************************************)
Record(t) ==
  /\ UNCHANGED <<asvars, bwvars, extvars>>
  /\ pc[t] = "record"
  /\ hourly_requests' = Append(hourly_requests, now)
  /\ minute_requests' = Append(minute_requests, now)
  /\ granted' = Append(granted, now)
  /\ ret' = [ret EXCEPT ![t] = [kind |-> "granted", window |-> "none", value |-> 0]]
  /\ lock' = NoThread
  /\ pc' = [pc EXCEPT ![t] = "idle"]
  /\ pruned_at' = [pruned_at EXCEPT ![t] = 0]
  /\ wait' = [wait EXCEPT ![t] = FALSE]
  /\ UNCHANGED <<now, advances, requests_per_hour, requests_per_minute,
                 nested, wake>>

(***************************************************************************)
(* acquire, lines 66-67 and 83-84: time.sleep(sleep_time) returns, then    *)
(* return self.acquire(wait=False), inside the with block: the thread      *)
(* calls acquire again while it holds self.lock.                           *)
(***************************************************************************)
SleepDone(t) ==
  /\ UNCHANGED <<asvars, bwvars, extvars>>
  /\ pc[t] = "sleep"
  /\ now >= wake[t]
  /\ pc' = [pc EXCEPT ![t] = "lock"]
  /\ wait' = [wait EXCEPT ![t] = FALSE]
  /\ nested' = [nested EXCEPT ![t] = TRUE]
  /\ wake' = [wake EXCEPT ![t] = 0]
  /\ UNCHANGED <<now, advances, requests_per_hour, requests_per_minute,
                 hourly_requests, minute_requests, lock, pruned_at,
                 ret, granted>>

(***************************************************************************)
(* get_wait_time, lines 103-111.                                           *)
(***************************************************************************)
\* A get_wait_time that looks at the minute window only.
WaitTimeValue_MinuteOnly ==
  IF MinuteSaturated THEN Remaining(minute_requests, MinuteTicks) ELSE 0

WaitTimeValue ==
  LET h == IF HourSaturated THEN {Remaining(hourly_requests, HourTicks)} ELSE {}
      m == IF MinuteSaturated THEN {Remaining(minute_requests, MinuteTicks)} ELSE {}
      wait_times == h \union m
  IN IF wait_times # {}
     THEN CHOOSE x \in wait_times : \A y \in wait_times : x >= y
     ELSE 0

WaitTime(t) ==
  /\ UNCHANGED <<asvars, bwvars, extvars>>
  /\ pc[t] = "wait_time"
  /\ ret' = [ret EXCEPT ![t] =
               [kind |-> "wait_time", window |-> "none", value |-> WaitTimeValue]]
  /\ lock' = NoThread
  /\ pc' = [pc EXCEPT ![t] = "idle"]
  /\ pruned_at' = [pruned_at EXCEPT ![t] = 0]
  /\ UNCHANGED <<now, advances, requests_per_hour, requests_per_minute,
                 hourly_requests, minute_requests, wait, nested, wake,
                 granted>>

NextRL ==
  \/ \E d \in Deltas : Tick(d)
  \/ \E t \in RLThreads, w \in BOOLEAN : CallAcquire(t, w)
  \/ \E t \in RLThreads : CallGetWaitTime(t)
  \/ \E t \in RLThreads : Enter(t)
  \/ \E t \in RLThreads : CheckHour(t)
  \/ \E t \in RLThreads : CheckMinute(t)
  \/ \E t \in RLThreads : Record(t)
  \/ \E t \in RLThreads : SleepDone(t)
  \/ \E t \in RLThreads : WaitTime(t)


(***************************************************************************)
(* AccountService (src/src/services/account_service.py).                   *)
(*                                                                         *)
(* A step is one access to the shared dicts.  Taking the lock is merged    *)
(* with the first access under it, releasing it with the last one, and a   *)
(* client construction (which touches nothing shared) with the access that *)
(* follows it.                                                             *)
(***************************************************************************)
\* dict operations
Put(d, k, v) == [x \in (DOMAIN d) \union {k} |-> IF x = k THEN v ELSE d[x]]
Pop(d, k) == [x \in (DOMAIN d) \ {k} |-> d[x]]
EmptyDict == [x \in {} |-> 0]

\* An Account value; every Account passed to the service is a new value,
\* told apart by its credential (the number of the call that brought it).
Account(id, token) == [account_id |-> id, access_token |-> token]

\* InstagramClient(access_token=account.access_token, rate_limiter=...):
\* the monitoring client uses rate_limiter, the posting client
\* rate_limiter_posting.
InstagramClient(account, kind) ==
  [access_token |-> account.access_token, kind |-> kind]

NoValue == [access_token |-> -1, kind |-> "none"]
NoArg == Account("none", -1)
NoRes == [op |-> "none", id |-> "none", status |-> "none", value |-> NoValue,
          unchanged |-> TRUE, during_update |-> FALSE, listed |-> {}]
NoPre == <<>>
\* No iteration over self.accounts is under way.
NoIter == [len |-> -1, done |-> {}, attached |-> FALSE, dict |-> EmptyDict]

\* __init__: the accounts given, and _initialize_clients for each of them.
InitAS ==
  /\ \E S \in SUBSET AccountIds :
       /\ accounts = [x \in S |-> Account(x, 0)]
       /\ clients = [x \in S |-> InstagramClient(Account(x, 0), "monitoring")]
       /\ posting_clients = [x \in S |-> InstagramClient(Account(x, 0), "posting")]
  /\ svc_lock = NoThread
  /\ spc = [t \in ASThreads |-> "idle"]
  /\ sarg = [t \in ASThreads |-> NoArg]
  /\ sres = [t \in ASThreads |-> NoRes]
  /\ calls = 0
  /\ pre = NoPre
  /\ iter = [t \in ASThreads |-> NoIter]

\* A thread calls add_account / update_account / remove_account.
CallStructural(t, op, id) ==
  /\ UNCHANGED <<rlvars, bwvars, iter, extvars>>
  /\ spc[t] = "idle"
  /\ calls < MaxCalls
  /\ calls' = calls + 1
  /\ spc' = [spc EXCEPT ![t] = op]
  /\ sarg' = [sarg EXCEPT ![t] = Account(id, calls + 1)]
  /\ sres' = [sres EXCEPT ![t] = NoRes]
  /\ UNCHANGED <<accounts, clients, posting_clients, svc_lock, pre>>

\* A call that ends without giving the lock back.
Return_KeepsLock(t, op, status, value) ==
  /\ sres' = [sres EXCEPT ![t] =
                [op |-> op, id |-> sarg[t].account_id, status |-> status,
                 value |-> value,
                 unchanged |-> (pre = NoPre \/ registry' = pre),
                 during_update |-> FALSE, listed |-> {}]]
  /\ spc' = [spc EXCEPT ![t] = "idle"]
  /\ sarg' = [sarg EXCEPT ![t] = NoArg]
  /\ UNCHANGED svc_lock
  /\ pre' = NoPre

\* The call of thread t ends: its result, the lock released.
Return(t, op, status, value) ==
  /\ sres' = [sres EXCEPT ![t] =
                [op |-> op, id |-> sarg[t].account_id, status |-> status,
                 value |-> value,
                 unchanged |-> (pre = NoPre \/ registry' = pre),
                 during_update |-> FALSE, listed |-> {}]]
  /\ spc' = [spc EXCEPT ![t] = "idle"]
  /\ sarg' = [sarg EXCEPT ![t] = NoArg]
  /\ svc_lock' = NoThread
  /\ pre' = NoPre

\* The call of thread t goes on to the step `next`, the lock kept.
Goto(t, next) ==
  /\ spc' = [spc EXCEPT ![t] = next]
  /\ UNCHANGED <<sarg, sres>>

SvcLockFree == svc_lock = NoThread

(***************************************************************************)
(* add_account, lines 262-308.                                             *)
(***************************************************************************)
\* An add_account without the already-exists test: it overwrites the entry.
AddBegin_Overwrites(t) ==
  /\ UNCHANGED <<rlvars, bwvars, iter, extvars>>
  /\ spc[t] = "add_account"
  /\ SvcLockFree
  /\ accounts' = Put(accounts, sarg[t].account_id, sarg[t])
  /\ UNCHANGED <<clients, posting_clients>>
  /\ svc_lock' = t
  /\ pre' = registry
  /\ Goto(t, "add_mon")
  /\ UNCHANGED calls

\* with self.lock: if account.account_id in self.accounts: raise ...;
\* self.accounts[account.account_id] = account
AddBegin(t) ==
  /\ UNCHANGED <<rlvars, bwvars, iter, extvars>>
  /\ spc[t] = "add_account"
  /\ SvcLockFree
  /\ IF sarg[t].account_id \in DOMAIN accounts
     THEN /\ UNCHANGED <<accounts, clients, posting_clients>>
          /\ Return(t, "add_account", "AlreadyExists", NoValue)
     ELSE /\ accounts' = Put(accounts, sarg[t].account_id, sarg[t])
          /\ UNCHANGED <<clients, posting_clients>>
          /\ svc_lock' = t
          /\ pre' = registry
          /\ Goto(t, "add_mon")
  /\ UNCHANGED calls

\* client = InstagramClient(...); self.clients[account_id] = client
\* or the constructor raises: except: self.accounts.pop(account_id, None); raise
AddMon(t) ==
  /\ UNCHANGED <<rlvars, bwvars, iter, extvars>>
  /\ spc[t] = "add_mon"
  /\ \E constructed \in BOOLEAN :
       IF constructed
       THEN /\ clients' = Put(clients, sarg[t].account_id,
                              InstagramClient(sarg[t], "monitoring"))
            /\ UNCHANGED <<accounts, posting_clients, svc_lock, pre>>
            /\ Goto(t, "add_post")
       ELSE /\ accounts' = Pop(accounts, sarg[t].account_id)
            /\ UNCHANGED <<clients, posting_clients>>
            /\ Return(t, "add_account", "ConstructionFailed", NoValue)
  /\ UNCHANGED calls

\* posting_client = InstagramClient(...); self.posting_clients[account_id] = ...
\* or the constructor raises: except: self.accounts.pop(account_id, None); raise
AddPost(t) ==
  /\ UNCHANGED <<rlvars, bwvars, iter, extvars>>
  /\ spc[t] = "add_post"
  /\ \E constructed \in BOOLEAN :
       IF constructed
       THEN /\ posting_clients' = Put(posting_clients, sarg[t].account_id,
                                      InstagramClient(sarg[t], "posting"))
            /\ UNCHANGED <<accounts, clients>>
            /\ Return(t, "add_account", "ok", NoValue)
       ELSE /\ accounts' = Pop(accounts, sarg[t].account_id)
            /\ UNCHANGED <<clients, posting_clients>>
            /\ Return(t, "add_account", "ConstructionFailed", NoValue)
  /\ UNCHANGED calls

(***************************************************************************)
(* update_account, lines 343-390.                                          *)
(***************************************************************************)
\* An update_account without the not-found test: it stores the account.
UpdBegin_Upserts(t) ==
  /\ UNCHANGED <<rlvars, bwvars, iter, extvars>>
  /\ spc[t] = "update_account"
  /\ SvcLockFree
  /\ accounts' = Put(accounts, sarg[t].account_id, sarg[t])
  /\ UNCHANGED <<clients, posting_clients>>
  /\ svc_lock' = t
  /\ pre' = registry
  /\ Goto(t, "upd_pop_mon")
  /\ UNCHANGED calls

\* with self.lock: if account.account_id not in self.accounts: raise ...;
\* self.accounts[account.account_id] = account
UpdBegin(t) ==
  /\ UNCHANGED <<rlvars, bwvars, iter, extvars>>
  /\ spc[t] = "update_account"
  /\ SvcLockFree
  /\ IF sarg[t].account_id \notin DOMAIN accounts
     THEN /\ UNCHANGED <<accounts, clients, posting_clients>>
          /\ Return(t, "update_account", "NotFound", NoValue)
     ELSE /\ accounts' = Put(accounts, sarg[t].account_id, sarg[t])
          /\ UNCHANGED <<clients, posting_clients>>
          /\ svc_lock' = t
          /\ pre' = registry
          /\ Goto(t, "upd_pop_mon")
  /\ UNCHANGED calls

\* self.clients.pop(account.account_id, None)
UpdPopMon(t) ==
  /\ UNCHANGED <<rlvars, bwvars, iter, extvars>>
  /\ spc[t] = "upd_pop_mon"
  /\ clients' = Pop(clients, sarg[t].account_id)
  /\ UNCHANGED <<accounts, posting_clients, svc_lock, pre, calls>>
  /\ Goto(t, "upd_pop_post")

\* self.posting_clients.pop(account.account_id, None)
UpdPopPost(t) ==
  /\ UNCHANGED <<rlvars, bwvars, iter, extvars>>
  /\ spc[t] = "upd_pop_post"
  /\ posting_clients' = Pop(posting_clients, sarg[t].account_id)
  /\ UNCHANGED <<accounts, clients, svc_lock, pre, calls>>
  /\ Goto(t, "upd_mon")

\* client = InstagramClient(...); self.clients[account_id] = client
\* or the constructor raises: except: raise AccountError (nothing restored)
UpdMon(t) ==
  /\ UNCHANGED <<rlvars, bwvars, iter, extvars>>
  /\ spc[t] = "upd_mon"
  /\ \E constructed \in BOOLEAN :
       IF constructed
       THEN /\ clients' = Put(clients, sarg[t].account_id,
                              InstagramClient(sarg[t], "monitoring"))
            /\ UNCHANGED <<accounts, posting_clients, svc_lock, pre>>
            /\ Goto(t, "upd_post")
       ELSE /\ UNCHANGED <<accounts, clients, posting_clients>>
            /\ Return(t, "update_account", "ConstructionFailed", NoValue)
  /\ UNCHANGED calls

\* posting_client = InstagramClient(...); self.posting_clients[account_id] = ...
UpdPost(t) ==
  /\ UNCHANGED <<rlvars, bwvars, iter, extvars>>
  /\ spc[t] = "upd_post"
  /\ \E constructed \in BOOLEAN :
       IF constructed
       THEN /\ posting_clients' = Put(posting_clients, sarg[t].account_id,
                                      InstagramClient(sarg[t], "posting"))
            /\ UNCHANGED <<accounts, clients>>
            /\ Return(t, "update_account", "ok", NoValue)
       ELSE /\ UNCHANGED <<accounts, clients, posting_clients>>
            /\ Return(t, "update_account", "ConstructionFailed", NoValue)
  /\ UNCHANGED calls

(***************************************************************************)
(* remove_account, lines 320-331.                                          *)
(***************************************************************************)
RemBegin(t) ==
  /\ UNCHANGED <<rlvars, bwvars, iter, extvars>>
  /\ spc[t] = "remove_account"
  /\ SvcLockFree
  /\ IF sarg[t].account_id \notin DOMAIN accounts
     THEN /\ UNCHANGED <<accounts, clients, posting_clients>>
          /\ Return(t, "remove_account", "NotFound", NoValue)
     ELSE /\ accounts' = Pop(accounts, sarg[t].account_id)
          /\ UNCHANGED <<clients, posting_clients>>
          /\ svc_lock' = t
          /\ pre' = registry
          /\ Goto(t, "rem_mon")
  /\ UNCHANGED calls

RemMon(t) ==
  /\ UNCHANGED <<rlvars, bwvars, iter, extvars>>
  /\ spc[t] = "rem_mon"
  /\ clients' = Pop(clients, sarg[t].account_id)
  /\ UNCHANGED <<accounts, posting_clients, svc_lock, pre, calls>>
  /\ Goto(t, "rem_post")

RemPost(t) ==
  /\ UNCHANGED <<rlvars, bwvars, iter, extvars>>
  /\ spc[t] = "rem_post"
  /\ posting_clients' = Pop(posting_clients, sarg[t].account_id)
  /\ UNCHANGED <<accounts, clients, calls>>
  /\ Return(t, "remove_account", "ok", NoValue)

(***************************************************************************)
(* get_client / get_posting_client / get_account, lines 85-137: no lock.   *)
(* The membership test and the subscript are two accesses to the dict.     *)
(***************************************************************************)
\* update_account(id) is under way on some thread: it has found id
\* registered, with both its clients, and has not returned yet.
UpdateInFlight(id) ==
  \E w \in ASThreads :
    /\ spc[w] \in {"upd_pop_mon", "upd_pop_post", "upd_mon", "upd_post"}
    /\ sarg[w].account_id = id
    /\ id \in DOMAIN pre[2]
    /\ id \in DOMAIN pre[3]

\* The dict a getter reads.
DictOf(op) ==
  CASE op = "get_client" -> clients
    [] op = "get_posting_client" -> posting_clients
    [] op = "get_account" -> accounts

\* The call of a getter ends; no lock is involved.
GetterReturn(t, op, id, status, value) ==
  /\ sres' = [sres EXCEPT ![t] =
                [op |-> op, id |-> id, status |-> status, value |-> value,
                 unchanged |-> TRUE, during_update |-> UpdateInFlight(id),
                 listed |-> {}]]
  /\ spc' = [spc EXCEPT ![t] = "idle"]
  /\ sarg' = [sarg EXCEPT ![t] = NoArg]

\* if account_id not in self.<dict>: raise AccountError("Account not found")
GetCheck(t, op, id) ==
  /\ UNCHANGED <<rlvars, bwvars, iter, extvars>>
  /\ spc[t] = "idle"
  /\ IF id \notin DOMAIN DictOf(op)
     THEN GetterReturn(t, op, id, "NotFound", NoValue)
     ELSE /\ spc' = [spc EXCEPT ![t] = op]
          /\ sarg' = [sarg EXCEPT ![t] = Account(id, -1)]
          /\ sres' = [sres EXCEPT ![t] = NoRes]
  /\ UNCHANGED <<accounts, clients, posting_clients, svc_lock, calls, pre>>

\* return self.<dict>[account_id]  (KeyError when the key has gone meanwhile)
GetRead(t) ==
  /\ UNCHANGED <<rlvars, bwvars, iter, extvars>>
  /\ spc[t] \in {"get_client", "get_posting_client", "get_account"}
  /\ LET op == spc[t]
         id == sarg[t].account_id
     IN IF id \in DOMAIN DictOf(op)
        THEN GetterReturn(t, op, id, "ok",
               [access_token |-> DictOf(op)[id].access_token,
                kind |-> IF op = "get_account" THEN "account"
                         ELSE DictOf(op)[id].kind])
        ELSE GetterReturn(t, op, id, "KeyError", NoValue)
  /\ UNCHANGED <<accounts, clients, posting_clients, svc_lock, calls, pre>>

(***************************************************************************)
(* list_accounts, lines 139-141: no lock.  list(self.accounts.values())    *)
(* copies the values of the dict as it is at one instant.                  *)
(***************************************************************************)
ListAccounts(t) ==
  /\ UNCHANGED <<rlvars, bwvars, iter, extvars>>
  /\ spc[t] = "idle"
  /\ sres' = [sres EXCEPT ![t] =
                [op |-> "list_accounts", id |-> "none", status |-> "ok",
                 value |-> NoValue, unchanged |-> TRUE,
                 during_update |-> FALSE,
                 listed |-> {accounts[x] : x \in DOMAIN accounts}]]
  /\ UNCHANGED <<accounts, clients, posting_clients, svc_lock, spc, sarg,
                 calls, pre>>

(***************************************************************************)
(* update_accounts, lines 143-148, and _initialize_clients, lines 42-83:   *)
(* no lock.                                                                *)
(***************************************************************************)
\* self.accounts = {acc.account_id: acc for acc in accounts}
\* self.accounts is bound to a new dict: an iteration that is under way over
\* the old dict goes on over the old dict, which nobody changes any more.
UpdateAccountsReplace(t, S) ==
  /\ UNCHANGED <<rlvars, bwvars, extvars>>
  /\ spc[t] = "idle"
  /\ calls < MaxCalls
  /\ calls' = calls + 1
  /\ accounts' = [x \in S |-> Account(x, calls + 1)]
  /\ iter' = [u \in ASThreads |->
                IF iter[u].attached
                THEN [iter[u] EXCEPT !.attached = FALSE, !.dict = accounts]
                ELSE iter[u]]
  /\ spc' = [spc EXCEPT ![t] = "ua_clear_mon"]
  /\ sres' = [sres EXCEPT ![t] = NoRes]
  /\ UNCHANGED <<clients, posting_clients, svc_lock, sarg, pre>>

\* self.clients.clear()
UAClearMon(t) ==
  /\ UNCHANGED <<rlvars, bwvars, extvars>>
  /\ spc[t] = "ua_clear_mon"
  /\ clients' = EmptyDict
  /\ spc' = [spc EXCEPT ![t] = "ua_clear_post"]
  /\ UNCHANGED <<accounts, posting_clients, svc_lock, sarg, sres, calls, pre,
                 iter>>

\* self.posting_clients.clear()
UAClearPost(t) ==
  /\ UNCHANGED <<rlvars, bwvars, extvars>>
  /\ spc[t] = "ua_clear_post"
  /\ posting_clients' = EmptyDict
  /\ spc' = [spc EXCEPT ![t] = "ua_iter"]
  /\ UNCHANGED <<accounts, clients, svc_lock, sarg, sres, calls, pre, iter>>

\* update_accounts ends: it returns None or _initialize_clients raised.
UAReturn(t, status) ==
  /\ sres' = [sres EXCEPT ![t] =
                [op |-> "update_accounts", id |-> "none", status |-> status,
                 value |-> NoValue, unchanged |-> TRUE,
                 during_update |-> FALSE, listed |-> {}]]
  /\ spc' = [spc EXCEPT ![t] = "idle"]
  /\ sarg' = [sarg EXCEPT ![t] = NoArg]
  /\ iter' = [iter EXCEPT ![t] = NoIter]

\* for account_id, account in self.accounts.items(): the iterator is made
\* over the dict self.accounts is bound to at that moment; each step of it
\* raises RuntimeError when the dict has changed its size since, and ends
\* the loop when no item is left.  Then, for the item it yields:
\* client = InstagramClient(...); self.clients[account_id] = client
\* or the constructor raises: except: raise AccountError.
\* The items come in the order of the accounts argument, which is any order.
UANext(t) ==
  /\ UNCHANGED <<rlvars, bwvars, extvars>>
  /\ spc[t] = "ua_iter"
  /\ LET it == IF iter[t] = NoIter
               THEN [len |-> Cardinality(DOMAIN accounts), done |-> {},
                     attached |-> TRUE, dict |-> EmptyDict]
               ELSE iter[t]
         d == IF it.attached THEN accounts ELSE it.dict
         todo == (DOMAIN d) \ it.done
     IN IF Cardinality(DOMAIN d) # it.len
        THEN /\ UAReturn(t, "RuntimeError")
             /\ UNCHANGED <<accounts, clients, posting_clients>>
        ELSE IF todo = {}
        THEN /\ UAReturn(t, "ok")
             /\ UNCHANGED <<accounts, clients, posting_clients>>
        ELSE \E k \in todo, constructed \in BOOLEAN :
               IF constructed
               THEN /\ clients' = Put(clients, k,
                                      InstagramClient(d[k], "monitoring"))
                    /\ iter' = [iter EXCEPT ![t] = it]
                    /\ sarg' = [sarg EXCEPT ![t] = d[k]]
                    /\ spc' = [spc EXCEPT ![t] = "ua_post"]
                    /\ UNCHANGED <<accounts, posting_clients, sres>>
               ELSE /\ UAReturn(t, "ConstructionFailed")
                    /\ UNCHANGED <<accounts, clients, posting_clients>>
  /\ UNCHANGED <<svc_lock, calls, pre>>

\* posting_client = InstagramClient(...);
\* self.posting_clients[account_id] = posting_client
\* or the constructor raises: except: raise AccountError.
UAPost(t) ==
  /\ UNCHANGED <<rlvars, bwvars, extvars>>
  /\ spc[t] = "ua_post"
  /\ \E constructed \in BOOLEAN :
       IF constructed
       THEN /\ posting_clients' = Put(posting_clients, sarg[t].account_id,
                                      InstagramClient(sarg[t], "posting"))
            /\ iter' = [iter EXCEPT ![t].done = @ \union {sarg[t].account_id}]
            /\ sarg' = [sarg EXCEPT ![t] = NoArg]
            /\ spc' = [spc EXCEPT ![t] = "ua_iter"]
            /\ UNCHANGED <<accounts, clients, sres>>
       ELSE /\ UAReturn(t, "ConstructionFailed")
            /\ UNCHANGED <<accounts, clients, posting_clients>>
  /\ UNCHANGED <<svc_lock, calls, pre>>

Getters == {"get_client", "get_posting_client", "get_account"}

NextAS ==
  \/ \E t \in ASThreads, id \in AccountIds :
       \E op \in {"add_account", "update_account", "remove_account"} :
         CallStructural(t, op, id)
  \/ \E t \in ASThreads : AddBegin(t)
  \/ \E t \in ASThreads : AddMon(t)
  \/ \E t \in ASThreads : AddPost(t)
  \/ \E t \in ASThreads : UpdBegin(t)
  \/ \E t \in ASThreads : UpdPopMon(t)
  \/ \E t \in ASThreads : UpdPopPost(t)
  \/ \E t \in ASThreads : UpdMon(t)
  \/ \E t \in ASThreads : UpdPost(t)
  \/ \E t \in ASThreads : RemBegin(t)
  \/ \E t \in ASThreads : RemMon(t)
  \/ \E t \in ASThreads : RemPost(t)
  \/ \E t \in ASThreads, id \in AccountIds, op \in Getters : GetCheck(t, op, id)
  \/ \E t \in ASThreads : GetRead(t)
  \/ \E t \in ASThreads : ListAccounts(t)
  \/ \E t \in ASThreads, S \in SUBSET AccountIds : UpdateAccountsReplace(t, S)
  \/ \E t \in ASThreads : UAClearMon(t)
  \/ \E t \in ASThreads : UAClearPost(t)
  \/ \E t \in ASThreads : UANext(t)
  \/ \E t \in ASThreads : UAPost(t)

(***************************************************************************)
(* Browser wrapper (src/src/automation/browser/browser_wrapper.py).        *)
(*                                                                         *)
(* Event loops are numbered in the order of their creation.  Nothing here  *)
(* is shared between threads, so a call is one step, except that a run     *)
(* lasts from the start of run_until_complete to its end.                  *)
(***************************************************************************)
\* _thread_local = threading.local(): an attribute of it is stored per thread.
\* A storage with one slot for all threads.
ThreadLocal_Shared(t) == "w1"

ThreadLocal(t) == t

NoRun == [loop |-> NoLoop, outcome |-> "none", created |-> FALSE]
NoTeardown == [outcome |-> "none", loop |-> NoLoop, had_pending |-> FALSE,
               awaited |-> FALSE]

\* How run_until_complete(coro) can end: the coroutine returns, or it raises
\* an exception of its own, or it is cancelled (asyncio.CancelledError), or
\* the loop is stopped before it is done (RuntimeError).
RunOutcomes == {"result", "exception", "CancelledError", "RuntimeError"}

InitBW ==
  /\ thread_local = [x \in BWThreads |-> NoLoop]
  /\ asyncio_loop = [t \in BWThreads |-> NoLoop]
  /\ loops_created = 0
  /\ loop_owner = EmptyDict
  /\ loop_closed = {}
  /\ pending = {}
  /\ bpc = [t \in BWThreads |-> "idle"]
  /\ cur = [t \in BWThreads |-> NoLoop]
  /\ bres = [t \in BWThreads |-> NoRun]
  /\ tres = [t \in BWThreads |-> NoTeardown]

\* A test that never finds a loop.
HasOpenLoop_Never(t) == FALSE

\* hasattr(_thread_local, "loop") and _thread_local.loop is not None
\* and not _thread_local.loop.is_closed()
HasOpenLoop(t) ==
  /\ thread_local[ThreadLocal(t)] # NoLoop
  /\ thread_local[ThreadLocal(t)] \notin loop_closed

\* _get_thread_loop, lines 17-20: the loop of this thread after the call.
GetThreadLoop(t) ==
  IF HasOpenLoop(t) THEN thread_local[ThreadLocal(t)] ELSE loops_created + 1

\* A run that keeps the limiter's lock and the registry lock while it lasts.
RunAsyncInThread_HoldsLocks(t) ==
  /\ bpc[t] = "idle"
  /\ lock = NoThread
  /\ svc_lock = NoThread
  /\ lock' = t
  /\ svc_lock' = t
  /\ loops_created < MaxLoops
  /\ loops_created' = loops_created + 1
  /\ thread_local' = [thread_local EXCEPT ![ThreadLocal(t)] = loops_created + 1]
  /\ asyncio_loop' = [asyncio_loop EXCEPT ![t] = loops_created + 1]
  /\ loop_owner' = Put(loop_owner, loops_created + 1, t)
  /\ cur' = [cur EXCEPT ![t] = loops_created + 1]
  /\ bpc' = [bpc EXCEPT ![t] = "run"]
  /\ bres' = [bres EXCEPT ![t] =
                [loop |-> NoLoop, outcome |-> "none", created |-> TRUE]]
  /\ UNCHANGED <<now, advances, requests_per_hour, requests_per_minute,
                 hourly_requests, minute_requests, pc, wait, nested, wake,
                 pruned_at, ret, granted>>
  /\ UNCHANGED <<accounts, clients, posting_clients, spc, sarg, sres, calls,
                 pre, iter>>
  /\ UNCHANGED <<loop_closed, pending, tres, extvars>>

\* _run_async_in_thread, lines 25-26: loop = _get_thread_loop(), which makes
\* and installs a new loop when the thread has no open one, and
\* run_until_complete(coro) starts.
RunAsyncInThread(t) ==
  /\ UNCHANGED <<rlvars, asvars, extvars>>
  /\ bpc[t] = "idle"
  /\ IF HasOpenLoop(t)
     THEN UNCHANGED <<thread_local, asyncio_loop, loops_created, loop_owner>>
     ELSE /\ loops_created < MaxLoops
          /\ loops_created' = loops_created + 1
          /\ thread_local' = [thread_local EXCEPT ![ThreadLocal(t)] =
                                GetThreadLoop(t)]
          /\ asyncio_loop' = [asyncio_loop EXCEPT ![t] = GetThreadLoop(t)]
          /\ loop_owner' = Put(loop_owner, GetThreadLoop(t), t)
  /\ cur' = [cur EXCEPT ![t] = GetThreadLoop(t)]
  /\ bpc' = [bpc EXCEPT ![t] = "run"]
  /\ bres' = [bres EXCEPT ![t] =
                [loop |-> NoLoop, outcome |-> "none",
                 created |-> ~HasOpenLoop(t)]]
  /\ UNCHANGED <<loop_closed, pending, tres>>

\* run_until_complete(coro) ends: the coroutine has returned or raised, and
\* the caller gets the result or the exception as it is; the tasks the
\* coroutine started and did not await stay pending on the loop.
RunComplete(t, outcome, leaves_tasks) ==
  /\ UNCHANGED <<rlvars, asvars, extvars>>
  /\ bpc[t] = "run"
  /\ bres' = [bres EXCEPT ![t] =
                [loop |-> cur[t], outcome |-> outcome, created |-> @.created]]
  /\ pending' = IF leaves_tasks THEN pending \union {cur[t]}
                ELSE pending \ {cur[t]}
  /\ cur' = [cur EXCEPT ![t] = NoLoop]
  /\ bpc' = [bpc EXCEPT ![t] = "idle"]
  /\ tres' = [tres EXCEPT ![t] = NoTeardown]
  /\ UNCHANGED <<thread_local, asyncio_loop, loops_created, loop_owner,
                 loop_closed>>

\* A teardown that leaves the loop as it is: open, and in the attribute.
CloseThreadLoop_KeepsLoop(t, await_raises) ==
  /\ UNCHANGED <<rlvars, asvars, extvars>>
  /\ bpc[t] = "idle"
  /\ tres' = [tres EXCEPT ![t] =
                [outcome |-> "returned", loop |-> thread_local[ThreadLocal(t)],
                 had_pending |-> thread_local[ThreadLocal(t)] \in pending,
                 awaited |-> FALSE]]
  /\ asyncio_loop' = [asyncio_loop EXCEPT ![t] = NoLoop]
  /\ UNCHANGED <<pending, loop_closed, thread_local, loops_created,
                 loop_owner, bpc, cur, bres>>

\* _close_thread_loop, lines 31-42.  When this thread has an open loop: its
\* pending tasks are cancelled and run_until_complete(gather(...)) awaits
\* them, and an Exception raised there is swallowed (except Exception: pass);
\* then the loop is closed and the attribute set to None.
\* asyncio.set_event_loop(None) in every case.
CloseThreadLoop(t, await_raises) ==
  /\ UNCHANGED <<rlvars, asvars, extvars>>
  /\ bpc[t] = "idle"
  /\ IF HasOpenLoop(t)
     THEN LET loop == thread_local[ThreadLocal(t)]
          IN /\ pending' = pending \ {loop}
             /\ loop_closed' = loop_closed \union {loop}
             /\ thread_local' = [thread_local EXCEPT ![ThreadLocal(t)] = NoLoop]
             /\ tres' = [tres EXCEPT ![t] =
                           [outcome |-> "returned", loop |-> loop,
                            had_pending |-> loop \in pending,
                            awaited |-> loop \in pending /\ ~await_raises]]
     ELSE /\ UNCHANGED <<pending, loop_closed, thread_local>>
          /\ tres' = [tres EXCEPT ![t] =
                        [outcome |-> "returned", loop |-> NoLoop,
                         had_pending |-> FALSE, awaited |-> FALSE]]
  /\ asyncio_loop' = [asyncio_loop EXCEPT ![t] = NoLoop]
  /\ UNCHANGED <<loops_created, loop_owner, bpc, cur, bres>>

NextBW ==
  \/ \E t \in BWThreads : RunAsyncInThread(t)
  \/ \E t \in BWThreads, outcome \in RunOutcomes, leaves_tasks \in BOOLEAN :
       RunComplete(t, outcome, leaves_tasks)
  \/ \E t \in BWThreads, await_raises \in BOOLEAN :
       CloseThreadLoop(t, await_raises)

(***************************************************************************)
(* AccountService.verify_account (account_service.py:150-209).             *)
(* A message is the sequence of its pieces of text and the sequence of the *)
(* numbers formatted into it.                                              *)
(***************************************************************************)
VAThreads == {"v1", "v2"}

\* None, as the value of error_code or error_subcode.
NoCode == -1
UpstreamCodes == {NoCode, 190}
UpstreamSubcodes == {NoCode, 460}
DiagTexts == {"Invalid OAuth access token", "Session has expired"}
\* str(RetryError): the retry wrapper's own text.
RetryText == "RetryError[<Future state=finished raised>]"

\* No exception: what Future.exception() returns after a call that returned;
\* str(None) is "None".
NoException ==
  [type |-> "NoneType", text |-> "None",
   error_code |-> NoCode, error_subcode |-> NoCode]

\* The exceptions a remote call ends with: an InstagramAPIError with its
\* error_code and error_subcode attributes, or another Exception.
Exceptions ==
  {[type |-> "InstagramAPIError", text |-> tx,
    error_code |-> c, error_subcode |-> sc] :
      tx \in DiagTexts, c \in UpstreamCodes, sc \in UpstreamSubcodes}
  \union
  {[type |-> "Exception", text |-> tx,
    error_code |-> NoCode, error_subcode |-> NoCode] : tx \in DiagTexts}

\* How client.get_account_info ends: it returns the account info; it raises
\* RetryError, whose last_attempt is None, or a future whose exception()
\* raises, or returns None, or returns the last attempt's exception; or it
\* raises another exception.
RemoteOutcomes ==
  {[kind |-> "info", last |-> "none", exc |-> NoException]}
  \union
  {[kind |-> "RetryError", last |-> l, exc |-> NoException] :
      l \in {"None", "raises", "result"}}
  \union
  {[kind |-> "RetryError", last |-> "exception", exc |-> e] : e \in Exceptions}
  \union
  {[kind |-> "Exception", last |-> "none", exc |-> e] : e \in Exceptions}

NoOutcome == [kind |-> "none", last |-> "none", exc |-> NoException]
NoVerify ==
  [status |-> "none", text |-> <<>>, numbers |-> <<>>, raised |-> NoOutcome]

\* `if error_code:` (line 189).
Truthy(code) == code # NoCode /\ code # 0

\* A message that is the retry wrapper's text whatever the last attempt was.
ErrorMsg_WrapperOnly(o) == [text |-> <<RetryText>>, numbers |-> <<>>]

\* error_msg as lines 177-194 and 203 compute it from the exception caught.
ErrorMsg(o) ==
  IF o.kind = "Exception"
  THEN [text |-> <<o.exc.text>>, numbers |-> <<>>]
  ELSE IF o.last \in {"None", "raises"}
       THEN [text |-> <<RetryText>>, numbers |-> <<>>]
       ELSE IF o.exc.type = "InstagramAPIError" /\ Truthy(o.exc.error_code)
            THEN [text |-> <<o.exc.text, " (code: ", ", subcode: ", ")">>,
                  numbers |-> <<o.exc.error_code, o.exc.error_subcode>>]
            ELSE [text |-> <<o.exc.text>>, numbers |-> <<>>]

InitVA ==
  /\ vpc = [t \in VAThreads |-> "idle"]
  /\ varg = [t \in VAThreads |-> "none"]
  /\ vres = [t \in VAThreads |-> NoVerify]

\* verify_account, line 161: client = self.get_client(account_id), outside
\* the try; AccountError when the account has no client.  Then the remote
\* call starts.
VerifyCall(t, id) ==
  /\ vpc[t] = "idle"
  /\ IF id \notin DOMAIN clients
     THEN /\ vres' = [vres EXCEPT ![t] =
                       [status |-> "AccountError",
                        text |-> <<"Account not found: ", id>>,
                        numbers |-> <<>>, raised |-> NoOutcome]]
          /\ UNCHANGED <<vpc, varg>>
     ELSE /\ vpc' = [vpc EXCEPT ![t] = "remote"]
          /\ varg' = [varg EXCEPT ![t] = id]
          /\ vres' = [vres EXCEPT ![t] = NoVerify]
  /\ UNCHANGED notva

\* verify_account, lines 163-209: the remote call ends with outcome o.
VerifyReturn(t, o) ==
  /\ vpc[t] = "remote"
  /\ vpc' = [vpc EXCEPT ![t] = "idle"]
  /\ vres' = [vres EXCEPT ![t] =
       IF o.kind = "info"
       THEN [status |-> "verified", text |-> <<>>, numbers |-> <<>>,
             raised |-> o]
       ELSE [status |-> "AccountError",
             text |-> <<"Account verification failed: ">> \o ErrorMsg(o).text,
             numbers |-> ErrorMsg(o).numbers,
             raised |-> o]]
  /\ UNCHANGED varg
  /\ UNCHANGED notva

NextVA ==
  \/ \E t \in VAThreads, id \in AccountIds : VerifyCall(t, id)
  \/ \E t \in VAThreads, o \in RemoteOutcomes : VerifyReturn(t, o)

(***************************************************************************)
(* The limiters of the monitoring and of the posting clients               *)
(* (account_service.py:33-34, 51-68).                                      *)
(***************************************************************************)
Limiters == {"L1", "L2"}
NoLimiter == "None"
ClientKinds == {"monitoring", "posting"}

InitCP ==
  /\ built = FALSE
  /\ rate_limiter = NoLimiter
  /\ rate_limiter_posting = NoLimiter
  /\ consumed = [l \in Limiters |-> 0]
  /\ last_via = <<"none", "none">>

\* `rate_limiter_posting or rate_limiter` (line 34): a RateLimiter object is
\* truthy, None is not.
Or(a, b) == IF a # NoLimiter THEN a ELSE b

\* self.rate_limiter_posting as line 34 sets it.
PostingLimiter(rl, rlp) == Or(rlp, rl)

\* AccountService.__init__, lines 33-34, with the arguments rate_limiter = rl
\* and rate_limiter_posting = rlp.
Construct(rl, rlp) ==
  /\ ~built
  /\ built' = TRUE
  /\ rate_limiter' = rl
  /\ rate_limiter_posting' = PostingLimiter(rl, rlp)
  /\ UNCHANGED <<consumed, last_via>>
  /\ UNCHANGED notcp

\* The limiter a client of the given kind was constructed with (lines 51-68).
LimiterOf(kind) ==
  IF kind = "monitoring" THEN rate_limiter ELSE rate_limiter_posting

\* The clients of the given kind.
ClientsOf(kind) == IF kind = "monitoring" THEN clients ELSE posting_clients

\* A request through the client of the given kind of account id: the client
\* acquires from the limiter it was constructed with, if it has one.
ClientAcquire(id, kind) ==
  /\ built
  /\ id \in DOMAIN ClientsOf(kind)
  /\ \A l \in Limiters : consumed[l] < MaxUse
  /\ last_via' = <<id, kind>>
  /\ consumed' = IF LimiterOf(kind) = NoLimiter THEN consumed
                 ELSE [consumed EXCEPT ![LimiterOf(kind)] = @ + 1]
  /\ UNCHANGED <<built, rate_limiter, rate_limiter_posting>>
  /\ UNCHANGED notcp

NextCP ==
  \/ \E rl, rlp \in Limiters \union {NoLimiter} : Construct(rl, rlp)
  \/ \E id \in AccountIds, kind \in ClientKinds : ClientAcquire(id, kind)

(***************************************************************************)
(* ProxyManager (proxy_manager.py).  The accounts dict is the caller's: it *)
(* is filled before the manager is constructed, and the proxy settings of  *)
(* an account may change afterwards.                                       *)
(***************************************************************************)
PMThreads == {"p1", "p2"}
Urls == {"u1", "u2"}
\* None, as a proxy URL.
NoneUrl == "None"
\* account.proxy: the enabled flag and proxy_url.
ProxyConfigs == [enabled : BOOLEAN, proxy_url : Urls \union {NoneUrl}]
PMOps == {"get_proxy_url", "verify_proxy", "verify_all_proxies"}
\* The order in which self.accounts.keys() yields the account ids.
AccountOrder == <<"X", "Y">>

RECURSIVE KeysFrom(_, _)
KeysFrom(d, i) ==
  IF i > Len(AccountOrder) THEN <<>>
  ELSE IF AccountOrder[i] \in DOMAIN d
       THEN <<AccountOrder[i]>> \o KeysFrom(d, i + 1)
       ELSE KeysFrom(d, i + 1)
Keys(d) == KeysFrom(d, 1)

NoPCall ==
  [op |-> "none", id |-> "none", url |-> NoneUrl, todo |-> <<>>,
   results |-> EmptyDict, keys |-> {}, failed |-> {},
   enabled |-> FALSE, started_cached |-> FALSE]
NoPRes ==
  [op |-> "none", id |-> "none", status |-> "none", value |-> NoneUrl,
   verdict |-> FALSE, results |-> EmptyDict, keys |-> {}, failed |-> {},
   enabled |-> FALSE, started_cached |-> FALSE, resolved |-> NoneUrl,
   stored |-> NoneUrl]

InitPM ==
  /\ pm_built = FALSE
  /\ pm_accounts = EmptyDict
  /\ proxy_cache = EmptyDict
  /\ pm_changes = 0
  /\ ppc = [t \in PMThreads |-> "idle"]
  /\ pcall = [t \in PMThreads |-> NoPCall]
  /\ pres = [t \in PMThreads |-> NoPRes]

\* The caller fills the accounts dict before it constructs the manager.
PMRegister(id, cfg) ==
  /\ ~pm_built
  /\ id \notin DOMAIN pm_accounts
  /\ pm_accounts' = Put(pm_accounts, id, cfg)
  /\ UNCHANGED <<pm_built, proxy_cache, pm_changes, ppc, pcall, pres>>
  /\ UNCHANGED notpm

\* ProxyManager.__init__, lines 16-27.
PMConstruct ==
  /\ ~pm_built
  /\ pm_built' = TRUE
  /\ proxy_cache' = EmptyDict
  /\ UNCHANGED <<pm_accounts, pm_changes, ppc, pcall, pres>>
  /\ UNCHANGED notpm

\* The proxy settings of an account of the shared dict change.
SetProxy(id, cfg) ==
  /\ pm_built
  /\ id \in DOMAIN pm_accounts
  /\ pm_changes < MaxConfigChanges
  /\ cfg # pm_accounts[id]
  /\ pm_accounts' = [pm_accounts EXCEPT ![id] = cfg]
  /\ pm_changes' = pm_changes + 1
  /\ UNCHANGED <<pm_built, proxy_cache, ppc, pcall, pres>>
  /\ UNCHANGED notpm

\* The entry of the cache for id as it will be, or NoneUrl.
Cached(cache, id) == IF id \in DOMAIN cache THEN cache[id] ELSE NoneUrl

\* The call of thread t ends: it returns, or raises ProxyError.
PMReturn(t, status, value, verdict, results, failed, cache) ==
  /\ ppc' = [ppc EXCEPT ![t] = "idle"]
  /\ pcall' = [pcall EXCEPT ![t] = NoPCall]
  /\ pres' = [pres EXCEPT ![t] =
       [op |-> pcall[t].op, id |-> pcall[t].id, status |-> status,
        value |-> value, verdict |-> verdict, results |-> results,
        keys |-> pcall[t].keys, failed |-> failed,
        enabled |-> FALSE, started_cached |-> FALSE,
        resolved |-> NoneUrl, stored |-> Cached(cache, pcall[t].id)]]

\* verify_proxy of pcall[t].id has the verdict b (lines 73-109); within
\* verify_all_proxies the verdict is stored and the loop goes on (lines 113-118).
AfterVerify(t, b, cache) ==
  LET failed == IF b THEN pcall[t].failed ELSE pcall[t].failed \union {pcall[t].id}
      results == Put(pcall[t].results, pcall[t].id, b)
  IN  IF pcall[t].op = "verify_proxy"
      THEN PMReturn(t, "ok", NoneUrl, b, EmptyDict, failed, cache)
      ELSE IF pcall[t].todo = <<>>
           THEN PMReturn(t, "ok", NoneUrl, FALSE, results, failed, cache)
           ELSE /\ ppc' = [ppc EXCEPT ![t] = "resolve"]
                /\ pcall' = [pcall EXCEPT ![t].id = Head(pcall[t].todo),
                                          ![t].todo = Tail(pcall[t].todo),
                                          ![t].results = results,
                                          ![t].failed = failed,
                                          ![t].url = NoneUrl]
                /\ UNCHANGED pres

\* A verify_proxy whose probe failure ends the whole call.
AfterProbe_Aborts(t, ok, cache) ==
  IF ok THEN AfterVerify(t, TRUE, cache)
  ELSE PMReturn(t, "ok", NoneUrl, FALSE, pcall[t].results,
                pcall[t].failed \union {pcall[t].id}, cache)

\* The probe of lines 76-109 ended: True when the request succeeded, False
\* when it raised.
AfterProbe(t, ok, cache) == AfterVerify(t, ok, cache)

\* get_proxy_url of pcall[t].id returned v (lines 44-62) having seen the
\* account's proxy enabled or not, and the cache with or without an entry.
AfterGet(t, v, en, was_cached, res, cache) ==
  IF pcall[t].op = "get_proxy_url"
  THEN /\ ppc' = [ppc EXCEPT ![t] = "idle"]
       /\ pcall' = [pcall EXCEPT ![t] = NoPCall]
       /\ pres' = [pres EXCEPT ![t] =
            [NoPRes EXCEPT !.op = "get_proxy_url", !.id = pcall[t].id,
                           !.status = "ok", !.value = v, !.enabled = en,
                           !.started_cached = was_cached, !.resolved = res,
                           !.stored = Cached(cache, pcall[t].id)]]
  ELSE IF v = NoneUrl
       THEN AfterVerify(t, TRUE, cache)
       ELSE /\ ppc' = [ppc EXCEPT ![t] = "probe"]
            /\ pcall' = [pcall EXCEPT ![t].url = v]
            /\ UNCHANGED pres

\* A call begins.  verify_all_proxies over no account returns {} at once.
PMCall(t, op, id) ==
  /\ pm_built
  /\ ppc[t] = "idle"
  /\ IF op = "verify_all_proxies"
     THEN IF Keys(pm_accounts) = <<>>
          THEN /\ ppc' = ppc
               /\ pcall' = pcall
               /\ pres' = [pres EXCEPT ![t] =
                    [NoPRes EXCEPT !.op = op, !.status = "ok"]]
          ELSE /\ ppc' = [ppc EXCEPT ![t] = "resolve"]
               /\ pcall' = [pcall EXCEPT ![t] =
                    [NoPCall EXCEPT !.op = op,
                                    !.id = Head(Keys(pm_accounts)),
                                    !.todo = Tail(Keys(pm_accounts)),
                                    !.keys = DOMAIN pm_accounts]]
               /\ pres' = [pres EXCEPT ![t] = NoPRes]
     ELSE /\ ppc' = [ppc EXCEPT ![t] = "resolve"]
          /\ pcall' = [pcall EXCEPT ![t] = [NoPCall EXCEPT !.op = op, !.id = id]]
          /\ pres' = [pres EXCEPT ![t] = NoPRes]
  /\ UNCHANGED <<pm_built, pm_accounts, proxy_cache, pm_changes>>
  /\ UNCHANGED notpm

\* A get_proxy_url that resolves the URL anew whether it is cached or not.
CacheHit_Never(id) == FALSE

\* `if account_id in self.proxy_cache` (line 51).
CacheHit(id) == id \in DOMAIN proxy_cache

\* get_proxy_url, lines 44-55: unknown account, proxy disabled, cached URL,
\* or the account's proxy_url.
Resolve(t) ==
  LET id == pcall[t].id IN
  /\ ppc[t] = "resolve"
  /\ IF id \notin DOMAIN pm_accounts
     THEN PMReturn(t, "ProxyError", NoneUrl, FALSE, pcall[t].results,
                   pcall[t].failed, proxy_cache)
     ELSE IF ~pm_accounts[id].enabled
          THEN AfterGet(t, NoneUrl, FALSE, id \in DOMAIN proxy_cache, NoneUrl,
                        proxy_cache)
          ELSE IF CacheHit(id)
               THEN AfterGet(t, proxy_cache[id], TRUE, TRUE, NoneUrl, proxy_cache)
               ELSE IF pm_accounts[id].proxy_url # NoneUrl
                    THEN /\ ppc' = [ppc EXCEPT ![t] = "store"]
                         /\ pcall' = [pcall EXCEPT
                              ![t].url = pm_accounts[id].proxy_url,
                              ![t].enabled = TRUE,
                              ![t].started_cached = id \in DOMAIN proxy_cache]
                         /\ UNCHANGED pres
                    ELSE AfterGet(t, NoneUrl, TRUE, id \in DOMAIN proxy_cache,
                                  NoneUrl, proxy_cache)
  /\ UNCHANGED <<pm_built, pm_accounts, proxy_cache, pm_changes>>
  /\ UNCHANGED notpm

\* get_proxy_url, lines 57-62: the URL is stored in the cache and returned.
Store(t) ==
  /\ ppc[t] = "store"
  /\ proxy_cache' = Put(proxy_cache, pcall[t].id, pcall[t].url)
  /\ AfterGet(t, pcall[t].url, TRUE, pcall[t].started_cached, pcall[t].url,
              proxy_cache')
  /\ UNCHANGED <<pm_built, pm_accounts, pm_changes>>
  /\ UNCHANGED notpm

\* verify_proxy, lines 76-109: the request through the proxy succeeds, or
\* raises (connection error, timeout, bad status) and is caught.
Probe(t, ok) ==
  /\ ppc[t] = "probe"
  /\ AfterProbe(t, ok, proxy_cache)
  /\ UNCHANGED <<pm_built, pm_accounts, proxy_cache, pm_changes>>
  /\ UNCHANGED notpm

NextPM ==
  \/ \E id \in AccountIds, cfg \in ProxyConfigs : PMRegister(id, cfg)
  \/ PMConstruct
  \/ \E id \in AccountIds, cfg \in ProxyConfigs : SetProxy(id, cfg)
  \/ \E t \in PMThreads, op \in PMOps, id \in AccountIds : PMCall(t, op, id)
  \/ \E t \in PMThreads : Resolve(t)
  \/ \E t \in PMThreads : Store(t)
  \/ \E t \in PMThreads, ok \in BOOLEAN : Probe(t, ok)

(***************************************************************************)
(* The browser wrapper with callers of the limiter and of the registry on  *)
(* other threads: while a run is under way on some thread (its coroutine   *)
(* suspended), thread t1 makes one acquire(wait=False) and thread a1 makes *)
(* add_account calls and reads the registry.                               *)
(***************************************************************************)
Suspended == \E w \in BWThreads : bpc[w] = "run"

\* A step of thread u's acquire(wait=False), once it is called.
AcquireStep(u) ==
  Enter(u) \/ CheckHour(u) \/ CheckMinute(u) \/ Record(u)

\* A step of thread u's add_account, once it is called.
AddAccountStep(u) ==
  AddBegin(u) \/ AddMon(u) \/ AddPost(u)

NextBridge ==
  \/ \E t \in BWThreads : RunAsyncInThread(t)
  \/ \E t \in BWThreads, leaves_tasks \in BOOLEAN :
       RunComplete(t, "result", leaves_tasks)
  \/ \E t \in BWThreads : CloseThreadLoop(t, FALSE)
  \/ Suspended /\ granted = <<>> /\ CallAcquire("t1", FALSE)
  \/ Suspended /\ AcquireStep("t1")
  \/ Suspended /\ CallStructural("a1", "add_account", "X")
  \/ Suspended /\ AddAccountStep("a1")
  \/ Suspended /\ spc["a1"] = "idle" /\ sres["a1"].op = "add_account"
       /\ GetCheck("a1", "get_client", "X")
  \/ Suspended /\ GetRead("a1")

(***************************************************************************)
(* The bulk update with a reader: X and Y are registered, thread a2 makes  *)
(* one update_accounts call with a list that contains X, and thread a1     *)
(* calls get_client(X) and get_posting_client(X) while that call runs.     *)
(***************************************************************************)
InUpdateAccounts(t) ==
  spc[t] \in {"ua_clear_mon", "ua_clear_post", "ua_iter", "ua_post"}

NextUA ==
  \/ /\ calls = 0
     /\ \E S \in SUBSET AccountIds : "X" \in S /\ UpdateAccountsReplace("a2", S)
  \/ UAClearMon("a2")
  \/ UAClearPost("a2")
  \/ UANext("a2")
  \/ UAPost("a2")
  \/ /\ InUpdateAccounts("a2")
     /\ \E op \in {"get_client", "get_posting_client"} : GetCheck("a1", op, "X")
  \/ GetRead("a1")

(***************************************************************************)
(* BrowserSessionManager.save_session / load_session                       *)
(* (session_manager.py:39-112).  Playwright is available; a session is the *)
(* cookie set of a browser context.                                        *)
(***************************************************************************)
Cookies == {"c1", "c2"}
Contexts == {"k1"}

\* get_session_file: sessions_dir / f"{account_id}_cookies.json".
SessionFile(account_id) == <<account_id, "_cookies.json">>
SessionFiles == {SessionFile(id) : id \in AccountIds}

\* A file of the sessions directory: absent, or a JSON list of cookies, or
\* something json.load or add_cookies rejects, or a file open() cannot read.
NoFile == [state |-> "absent", cookies |-> {}]
CorruptFile == [state |-> "corrupt", cookies |-> {}]

NoSave == [called |-> FALSE, written |-> FALSE, cookies |-> {}]
NoSmRes ==
  [op |-> "none", account_id |-> "none", context |-> "none", ret |-> "none",
   failed_at |-> "none", ctx_before |-> {}, ctx_after |-> {}, file_before |-> NoFile,
   others_kept |-> TRUE, save |-> NoSave]

InitSM ==
  /\ session_files = [f \in SessionFiles |-> NoFile]
  /\ context_cookies = [k \in Contexts |-> {}]
  /\ last_save = [id \in AccountIds |-> NoSave]
  /\ sm_events = 0
  /\ sm_res = NoSmRes

\* The files of the accounts other than id are as they were.
OthersKept(id) ==
  \A other \in AccountIds \ {id} :
    session_files'[SessionFile(other)] = session_files[SessionFile(other)]

\* The site sets or drops cookies of a browser context (a login, a logout).
SetCookies(k, C) ==
  /\ sm_events < MaxSessionEvents
  /\ C # context_cookies[k]
  /\ context_cookies' = [context_cookies EXCEPT ![k] = C]
  /\ sm_events' = sm_events + 1
  /\ UNCHANGED <<session_files, last_save, sm_res>>
  /\ UNCHANGED notsm

\* A stored session file is damaged or made unreadable from outside.
Damage(id, state) ==
  /\ sm_events < MaxSessionEvents
  /\ session_files[SessionFile(id)].state = "ok"
  /\ session_files' = [session_files EXCEPT ![SessionFile(id)].state = state]
  /\ last_save' = [last_save EXCEPT ![id] = NoSave]
  /\ sm_events' = sm_events + 1
  /\ UNCHANGED <<context_cookies, sm_res>>
  /\ UNCHANGED notsm

\* The calls of save_session and load_session that can raise.
Sites == {"cookies", "open_w", "json_dump", "open_r", "json_load", "add_cookies"}

\* A save_session whose writing is outside the try block.
InTry_ReadsOnly(site) == site \in {"cookies", "open_r", "json_load", "add_cookies"}

\* The try blocks of lines 54-66 and 93-106 hold every one of these calls.
InTry(site) == site \in Sites

\* The file save_session opens for writing (line 56).
SaveTarget(id) == {SessionFile(id)}

\* save_session, lines 54-71.  outcome: the cookies are written; or
\* page.context.cookies() raises; or open(session_file, "w") raises; or the
\* file is opened (and so truncated) and json.dump raises.  An exception
\* raised inside the try block is caught and logged, and the call returns
\* None.
SaveSession(id, k, outcome) ==
  /\ session_files' =
       [f \in SessionFiles |->
          IF f \in SaveTarget(id)
          THEN CASE outcome = "written" ->
                      [state |-> "ok", cookies |-> context_cookies[k]]
                 [] outcome = "json_dump" -> CorruptFile
                 [] OTHER -> session_files[f]
          ELSE session_files[f]]
  /\ last_save' = [last_save EXCEPT ![id] =
                     [called |-> TRUE, written |-> outcome = "written",
                      cookies |-> context_cookies[k]]]
  /\ sm_res' = [op |-> "save_session", account_id |-> id, context |-> k,
                ret |-> IF outcome = "written" \/ InTry(outcome)
                        THEN "None" ELSE "raised",
                failed_at |-> IF outcome = "written" THEN "none" ELSE outcome,
                ctx_before |-> context_cookies[k],
                ctx_after |-> context_cookies[k],
                file_before |-> session_files[SessionFile(id)],
                others_kept |-> OthersKept(id),
                save |-> last_save'[id]]
  /\ UNCHANGED <<context_cookies, sm_events>>
  /\ UNCHANGED notsm

\* A load that adds the stored cookies and drops what the context had.
Restored_Replacing(before, stored) == stored

\* page.context.add_cookies(cookies), line 97: the cookies are added to
\* those of the context.
Restored(before, stored) == before \union stored

\* load_session, lines 87-112.  No file: False.  open raises (unreadable
\* file), json.load raises (corrupt file), or add_cookies raises (the context
\* does not accept them): caught, False.  Otherwise the cookies are added and
\* the call returns True.
LoadSession(id, k, accepts) ==
  LET file == session_files[SessionFile(id)]
      site == CASE file.state = "absent" -> "none"
                [] file.state = "unreadable" -> "open_r"
                [] file.state = "corrupt" -> "json_load"
                [] ~accepts -> "add_cookies"
                [] OTHER -> "none"
      loaded == file.state = "ok" /\ accepts
  IN  /\ context_cookies' =
           [context_cookies EXCEPT ![k] =
              IF loaded THEN Restored(context_cookies[k], file.cookies)
              ELSE context_cookies[k]]
      /\ sm_res' = [op |-> "load_session", account_id |-> id, context |-> k,
                    ret |-> IF loaded THEN "True"
                            ELSE IF site = "none" \/ InTry(site) THEN "False"
                            ELSE "raised",
                    failed_at |-> site,
                    ctx_before |-> context_cookies[k],
                    ctx_after |-> context_cookies'[k],
                    file_before |-> file,
                    others_kept |-> TRUE,
                    save |-> last_save[id]]
      /\ UNCHANGED <<session_files, last_save, sm_events>>
      /\ UNCHANGED notsm

SaveOutcomes == {"written", "cookies", "open_w", "json_dump"}

NextSM ==
  \/ \E k \in Contexts, C \in SUBSET Cookies : SetCookies(k, C)
  \/ \E id \in AccountIds, state \in {"corrupt", "unreadable"} : Damage(id, state)
  \/ \E id \in AccountIds, k \in Contexts, outcome \in SaveOutcomes :
       SaveSession(id, k, outcome)
  \/ \E id \in AccountIds, k \in Contexts, accepts \in BOOLEAN :
       LoadSession(id, k, accepts)

(***************************************************************************)
(* BrowserSessionManager.is_logged_in (session_manager.py:114-171).        *)
(***************************************************************************)
\* The selectors probed, in the order of the two lists of the code, each
\* with the timeout (ms) of its wait_for_selector call.
logged_in_indicators == <<"a[href*=/direct/]", "a[href=/]">>
login_indicators == <<"input[name=username]", "button[type=submit]">>
Indicators == logged_in_indicators \o login_indicators
TimeoutOf(i) == IF i <= Len(logged_in_indicators) THEN 5000 ELSE 3000

\* What page.goto and page.wait_for_selector can do: goto returns or raises;
\* wait_for_selector returns an element, returns None, or raises (on a
\* timeout, or on any other failure).
GotoOutcomes == {"ok", "raises"}
ProbeOutcomes == {"element", "None", "raises"}

\* An is_logged_in that goes on probing after a match.
Verdict_IgnoresMatch(i, outcome) ==
  IF i = Len(Indicators) THEN "False" ELSE "continue"

\* What the loop bodies do with the outcome of probe i (lines 143-164): an
\* element of a logged-in indicator returns True, an element of a login
\* indicator returns False, None or an exception goes on to the next
\* selector, and after the last one the method returns False (line 167).
Verdict(i, outcome) ==
  IF outcome = "element"
  THEN IF i <= Len(logged_in_indicators) THEN "True" ELSE "False"
  ELSE IF i = Len(Indicators) THEN "False" ELSE "continue"

InitLI ==
  /\ li_pc = "idle"
  /\ li_nav = "none"
  /\ li_probed = <<>>
  /\ li_ret = "none"
  /\ li_calls = 0

\* is_logged_in(page) is called.
IsLoggedIn ==
  /\ li_pc \in {"idle", "done"}
  /\ li_calls < MaxChecks
  /\ li_pc' = "goto"
  /\ li_nav' = "none"
  /\ li_probed' = <<>>
  /\ li_ret' = "none"
  /\ li_calls' = li_calls + 1
  /\ UNCHANGED notli

\* page.goto, lines 129-133; its exception is caught at line 169.
PageGoto(outcome) ==
  /\ li_pc = "goto"
  /\ li_nav' = outcome
  /\ IF outcome = "raises"
     THEN li_pc' = "done" /\ li_ret' = "False"
     ELSE li_pc' = "probe" /\ li_ret' = li_ret
  /\ UNCHANGED <<li_probed, li_calls>>
  /\ UNCHANGED notli

\* One page.wait_for_selector call and what follows it in the loop body.
WaitForSelector(outcome) ==
  LET i == Len(li_probed) + 1
      v == Verdict(i, outcome)
  IN  /\ li_pc = "probe"
      /\ li_probed' = Append(li_probed,
                             [selector |-> Indicators[i],
                              timeout |-> TimeoutOf(i),
                              outcome |-> outcome])
      /\ IF v = "continue"
         THEN li_pc' = "probe" /\ li_ret' = li_ret
         ELSE li_pc' = "done" /\ li_ret' = v
      /\ UNCHANGED <<li_nav, li_calls>>
      /\ UNCHANGED notli

NextLI ==
  \/ IsLoggedIn
  \/ \E outcome \in GotoOutcomes : PageGoto(outcome)
  \/ \E outcome \in ProbeOutcomes : WaitForSelector(outcome)

(***************************************************************************)
(* DMTracking (features/comments/dm_tracking.py).  _tracking, a dict       *)
(* account_id -> date -> set of comment ids, is the set of its triples     *)
(* <<account_id, date, comment_id>>; a date is the number of the UTC day,  *)
(* which orders as its ISO string does.                                    *)
(***************************************************************************)
CommentIds == {"m1", "m2"}
Days == 0..MaxDay

NoDtRes ==
  [op |-> "none", account_id |-> "none", comment_id |-> "none", day |-> 0,
   ret |-> FALSE]

InitDT ==
  /\ tracking = {}
  /\ tracking_file = [exists |-> FALSE, data |-> {}]
  /\ utc_day = 0
  /\ marked = {}
  /\ dt_res = NoDtRes

\* The dates of the account not older than the cutoff date are kept
\* (lines 77-83); the other accounts' entries are not touched.
KeptAfterMark(entries, account_id, today) ==
  {e \in entries : e[1] # account_id \/ e[2] >= today - RetentionDays}

\* _load_tracking, lines 21-37.
LoadTracking == IF ~tracking_file.exists THEN {} ELSE tracking_file.data

\* is_comment_processed, lines 55-65: the lookup is made under today's date.
IsProcessed(entries, account_id, comment_id, today) ==
  <<account_id, today, comment_id>> \in entries

\* mark_comment_processed, lines 67-87; saved: _save_tracking wrote the file,
\* or open raised and the exception was caught (lines 39-53).
MarkCommentProcessed(account_id, comment_id, saved) ==
  /\ Cardinality(marked) < MaxMarks
  /\ tracking' = KeptAfterMark(tracking \union
                                 {<<account_id, utc_day, comment_id>>},
                               account_id, utc_day)
  /\ tracking_file' = IF saved THEN [exists |-> TRUE, data |-> tracking']
                      ELSE tracking_file
  /\ marked' = marked \union {<<account_id, utc_day, comment_id>>}
  /\ dt_res' = [op |-> "mark_comment_processed", account_id |-> account_id,
                comment_id |-> comment_id, day |-> utc_day, ret |-> FALSE]
  /\ UNCHANGED utc_day
  /\ UNCHANGED notdt

\* is_comment_processed(account_id, comment_id) is called.
IsCommentProcessed(account_id, comment_id) ==
  /\ dt_res' = [op |-> "is_comment_processed", account_id |-> account_id,
                comment_id |-> comment_id, day |-> utc_day,
                ret |-> IsProcessed(tracking, account_id, comment_id, utc_day)]
  /\ UNCHANGED <<tracking, tracking_file, utc_day, marked>>
  /\ UNCHANGED notdt

\* The UTC date changes.
DateChanges ==
  /\ utc_day < MaxDay
  /\ utc_day' = utc_day + 1
  /\ UNCHANGED <<tracking, tracking_file, marked, dt_res>>
  /\ UNCHANGED notdt

\* A new DMTracking is constructed over the same file (lines 15-18).
ReloadTracker ==
  /\ tracking' = LoadTracking
  /\ tracking' # tracking
  /\ UNCHANGED <<tracking_file, utc_day, marked, dt_res>>
  /\ UNCHANGED notdt

NextDT ==
  \/ \E id \in AccountIds, c \in CommentIds, saved \in BOOLEAN :
       MarkCommentProcessed(id, c, saved)
  \/ \E id \in AccountIds, c \in CommentIds : IsCommentProcessed(id, c)
  \/ DateChanges
  \/ ReloadTracker

(***************************************************************************)
(* BrowserManager (automation/browser/browser_manager.py).  The dicts      *)
(* browsers, contexts and pages are modelled by their key sets: an object  *)
(* is recorded from its creation until close_account_browser closes and    *)
(* deletes it.                                                             *)
(***************************************************************************)
\* Where a get_*_for_account call can raise: launching the browser, creating
\* the context, creating the page; "none": nothing raises.
FailAt == {"none", "launch", "new_context", "new_page"}

NoBmRes == [op |-> "none", account_id |-> "none", raised |-> FALSE]

InitBM ==
  /\ browsers = {}
  /\ contexts = {}
  /\ pages = {}
  /\ playwright_instance = "none"
  /\ bm_res = NoBmRes

\* get_browser_for_account, lines 84-127: the browser is launched and
\* recorded when the account has none.
BrowsersAfterGet(account_id, fail) ==
  IF account_id \in browsers \/ fail = "launch"
  THEN browsers ELSE browsers \union {account_id}

\* _initialize_playwright, lines 77-82, called before the launch.
InstanceAfterGet(account_id) ==
  IF account_id \in browsers THEN playwright_instance ELSE "started"

\* get_context_for_account, lines 129-171, from the point where the browser
\* is there.
ContextsAfterGet(account_id, fail) ==
  IF account_id \in contexts \/ fail \in {"launch", "new_context"}
  THEN contexts ELSE contexts \union {account_id}

\* get_page_for_account, lines 173-202, from the point where the context is
\* there.
PagesAfterGet(account_id, fail) ==
  IF account_id \in pages \/ fail \in {"launch", "new_context", "new_page"}
  THEN pages ELSE pages \union {account_id}

GetBrowserForAccount(account_id, fail) ==
  /\ fail \in {"none", "launch"}
  /\ fail = "launch" => account_id \notin browsers
  /\ browsers' = BrowsersAfterGet(account_id, fail)
  /\ playwright_instance' = InstanceAfterGet(account_id)
  /\ bm_res' = [op |-> "get_browser_for_account", account_id |-> account_id,
                raised |-> fail # "none"]
  /\ UNCHANGED <<contexts, pages>>
  /\ UNCHANGED notbm

GetContextForAccount(account_id, fail) ==
  /\ fail \in {"none", "launch", "new_context"}
  /\ fail # "none" => account_id \notin contexts
  /\ fail = "launch" => account_id \notin browsers
  /\ IF account_id \in contexts
     THEN UNCHANGED <<browsers, contexts, playwright_instance>>
     ELSE /\ browsers' = BrowsersAfterGet(account_id, fail)
          /\ playwright_instance' = InstanceAfterGet(account_id)
          /\ contexts' = ContextsAfterGet(account_id, fail)
  /\ bm_res' = [op |-> "get_context_for_account", account_id |-> account_id,
                raised |-> fail # "none"]
  /\ UNCHANGED pages
  /\ UNCHANGED notbm

GetPageForAccount(account_id, fail) ==
  /\ fail # "none" => account_id \notin pages
  /\ fail \in {"launch", "new_context"} => account_id \notin contexts
  /\ fail = "launch" => account_id \notin browsers
  /\ IF account_id \in pages
     THEN UNCHANGED <<browsers, contexts, pages, playwright_instance>>
     ELSE /\ IF account_id \in contexts
             THEN UNCHANGED <<browsers, contexts, playwright_instance>>
             ELSE /\ browsers' = BrowsersAfterGet(account_id, fail)
                  /\ playwright_instance' = InstanceAfterGet(account_id)
                  /\ contexts' = ContextsAfterGet(account_id, fail)
          /\ pages' = PagesAfterGet(account_id, fail)
  /\ bm_res' = [op |-> "get_page_for_account", account_id |-> account_id,
                raised |-> fail # "none"]
  /\ UNCHANGED notbm

\* close_account_browser, lines 204-218: what is recorded for the account is
\* closed and deleted.
CloseAccountBrowser(account_id) ==
  /\ pages' = pages \ {account_id}
  /\ contexts' = contexts \ {account_id}
  /\ browsers' = browsers \ {account_id}
  /\ bm_res' = [op |-> "close_account_browser", account_id |-> account_id,
                raised |-> FALSE]
  /\ UNCHANGED playwright_instance
  /\ UNCHANGED notbm

\* The accounts close_all closes: the keys of pages (line 222).
ClosedByCloseAll == pages

\* close_all, lines 220-229: close_account_browser for every account of
\* ClosedByCloseAll, then the Playwright instance is stopped and forgotten.
CloseAll ==
  /\ pages' = pages \ ClosedByCloseAll
  /\ contexts' = contexts \ ClosedByCloseAll
  /\ browsers' = browsers \ ClosedByCloseAll
  /\ playwright_instance' = "none"
  /\ bm_res' = [op |-> "close_all", account_id |-> "none", raised |-> FALSE]
  /\ UNCHANGED notbm

NextBM ==
  \/ \E id \in AccountIds, fail \in FailAt : GetBrowserForAccount(id, fail)
  \/ \E id \in AccountIds, fail \in FailAt : GetContextForAccount(id, fail)
  \/ \E id \in AccountIds, fail \in FailAt : GetPageForAccount(id, fail)
  \/ \E id \in AccountIds : CloseAccountBrowser(id)
  \/ CloseAll

(***************************************************************************)
(* RetryPolicy (specification, section 4.3): a remote call is made at most *)
(* N times; a transient failure is retried after a backoff while attempts  *)
(* remain, a permanent failure ends the call at once, and the RetryOutcome *)
(* records the attempts taken and the last error.  The implementation      *)
(* (src/api/instagram_client.py) is not among the sources.                 *)
(***************************************************************************)
\* The failures of an attempt and their classes.
TransientErrors == {"timeout", "rate_limit", "server_5xx"}
PermanentErrors == {"authentication", "malformed_request"}
AttemptOutcomes == {"success"} \union TransientErrors \union PermanentErrors

NoRetryOutcome == [status |-> "none", attempts |-> 0, last_error |-> "none"]

InitRP ==
  /\ rp_pc = "idle"
  /\ rp_n = 1
  /\ rp_attempts = <<>>
  /\ rp_outcome = NoRetryOutcome
  /\ rp_calls = 0

\* A policy that retries a transient failure whatever the attempts made.
ShouldRetry_Always(outcome, made, n) == outcome \in TransientErrors

\* A failure is retried when it is transient and fewer than N attempts have
\* been made.
ShouldRetry(outcome, made, n) == outcome \in TransientErrors /\ made < n

\* The RetryOutcome of a call that ends with the given attempt.
RetryOutcome(outcome, made) ==
  [status |-> IF outcome = "success" THEN "success" ELSE "error",
   attempts |-> made,
   last_error |-> IF outcome = "success" THEN "none" ELSE outcome]

\* A remote call is started under a policy of n attempts.
RetryCall(n) ==
  /\ rp_pc \in {"idle", "done"}
  /\ rp_calls < MaxRetryCalls
  /\ rp_pc' = "attempt"
  /\ rp_n' = n
  /\ rp_attempts' = <<>>
  /\ rp_outcome' = NoRetryOutcome
  /\ rp_calls' = rp_calls + 1
  /\ UNCHANGED notrp

\* One attempt of the remote call and its classification.
Attempt(outcome) ==
  LET made == Len(rp_attempts) + 1
  IN  /\ rp_pc = "attempt"
      /\ rp_attempts' = Append(rp_attempts, outcome)
      /\ IF ShouldRetry(outcome, made, rp_n)
         THEN rp_pc' = "backoff" /\ rp_outcome' = rp_outcome
         ELSE rp_pc' = "done" /\ rp_outcome' = RetryOutcome(outcome, made)
      /\ UNCHANGED <<rp_n, rp_calls>>
      /\ UNCHANGED notrp

\* The backoff delay before the next attempt has passed.
Backoff ==
  /\ rp_pc = "backoff"
  /\ rp_pc' = "attempt"
  /\ UNCHANGED <<rp_n, rp_attempts, rp_outcome, rp_calls>>
  /\ UNCHANGED notrp

NextRP ==
  \/ \E n \in 1..MaxAttempts : RetryCall(n)
  \/ \E outcome \in AttemptOutcomes : Attempt(outcome)
  \/ Backoff

(***************************************************************************)
(* The specifications.                                                     *)
(***************************************************************************)
Init == InitRL /\ InitAS /\ InitBW /\ InitVA /\ InitCP /\ InitPM /\ InitSM /\ InitLI /\ InitDT /\ InitBM /\ InitRP
Next == NextRL \/ NextAS \/ NextBW \/ NextVA \/ NextCP \/ NextPM \/ NextSM \/ NextLI \/ NextDT \/ NextBM \/ NextRP

\* The limiter alone: the service starts without accounts and stays so.
InitRLOnly == InitRL /\ InitAS /\ InitBW /\ InitVA /\ InitCP /\ InitPM /\ InitSM /\ InitLI /\ InitDT /\ InitBM /\ InitRP /\ accounts = EmptyDict
\* The account service alone: one configuration of the idle limiter.
InitASOnly ==
  InitRL /\ InitAS /\ InitBW /\ InitVA /\ InitCP /\ InitPM /\ InitSM /\ InitLI /\ InitDT /\ InitBM /\ InitRP /\ requests_per_minute = 1 /\ requests_per_hour = 2
\* The browser wrapper alone.
InitBWOnly ==
  /\ InitRL /\ InitAS /\ InitBW /\ InitVA /\ InitCP /\ InitPM /\ InitSM /\ InitLI /\ InitDT /\ InitBM /\ InitRP
  /\ requests_per_minute = 1 /\ requests_per_hour = 2
  /\ accounts = EmptyDict

\* verify_account alone: account X is registered, Y is not.
InitVAOnly ==
  /\ InitRL /\ InitAS /\ InitBW /\ InitVA /\ InitCP /\ InitPM /\ InitSM /\ InitLI /\ InitDT /\ InitBM /\ InitRP
  /\ requests_per_minute = 1 /\ requests_per_hour = 2
  /\ DOMAIN accounts = {"X"}

\* The clients' limiters alone: both accounts are registered.
InitCPOnly ==
  /\ InitRL /\ InitAS /\ InitBW /\ InitVA /\ InitCP /\ InitPM /\ InitSM /\ InitLI /\ InitDT /\ InitBM /\ InitRP
  /\ requests_per_minute = 1 /\ requests_per_hour = 2
  /\ DOMAIN accounts = AccountIds

SpecRL == InitRLOnly /\ [][NextRL]_vars
SpecAS == InitASOnly /\ [][NextAS]_vars
SpecBW == InitBWOnly /\ [][NextBW]_vars
SpecBridge == InitBWOnly /\ [][NextBridge]_vars
SpecVA == InitVAOnly /\ [][NextVA]_vars
SpecCP == InitCPOnly /\ [][NextCP]_vars
SpecPM == InitBWOnly /\ [][NextPM]_vars
SpecUA == InitCPOnly /\ [][NextUA]_vars
SpecSM == InitBWOnly /\ [][NextSM]_vars
SpecLI == InitBWOnly /\ [][NextLI]_vars
SpecDT == InitBWOnly /\ [][NextDT]_vars
SpecBM == InitBWOnly /\ [][NextBM]_vars
SpecRP == InitBWOnly /\ [][NextRP]_vars
Spec == Init /\ [][Next]_vars

(***************************************************************************)
(* Claims about the RateLimiter (checked under SpecRL).                    *)
(***************************************************************************)
InCriticalSection(t) ==
  pc[t] \in {"check_hour", "check_minute", "record", "sleep", "wait_time"}

\* The grants whose timestamps lie in the trailing minute that ends at the
\* i-th grant: (granted[i] - 60 s, granted[i]].
GrantsInMinuteEndingAt(i) ==
  {j \in 1..Len(granted) :
     granted[i] - MinuteTicks < granted[j] /\ granted[j] <= granted[i]}

\* C1: in every trailing 60-second window the limiter has granted at most
\* requests_per_minute acquisitions.
C1_MinuteCeiling ==
  \A i \in 1..Len(granted) :
    Cardinality(GrantsInMinuteEndingAt(i)) <= requests_per_minute

\* C2: a blocking acquire always returns: after its sleep the caller can make
\* the non-blocking retry, so it never waits for a lock that nobody will ever
\* release (the one its own outer call still holds).
C2_BlockingAcquireReturns ==
  \A t \in RLThreads : ~(pc[t] = "lock" /\ nested[t] /\ lock = t)

\* C7: prune, capacity check and append run as one critical section: a thread
\* that is between the prune and the end of its call holds the limiter's lock,
\* and at most one thread is there at any time.
C7_CriticalSection ==
  /\ \A t \in RLThreads : InCriticalSection(t) => lock = t
  /\ Cardinality({t \in RLThreads : InCriticalSection(t)}) <= 1

\* C7's case: one thread is inside the critical section while another one
\* has called acquire and waits for the lock.
C7_Witness ==
  \E t, u \in RLThreads :
    /\ t # u
    /\ pc[t] \in {"check_minute", "record"}
    /\ pc[u] = "lock"
    /\ ~nested[u]

\* C8: a denied non-blocking acquire carries a retry_after with
\* 0 < retry_after <= 60 (minute window) or 0 < retry_after <= 3600 (hour).
C8_RetryAfterPositive ==
  \A t \in RLThreads :
    ret[t].kind = "denied" =>
      /\ 0 < ret[t].value
      /\ ret[t].value <=
           (IF ret[t].window = "minute" THEN MinuteHorizon ELSE HourHorizon)

\* C9: neither window ever holds more entries than its limit.
C9_WindowsWithinCapacity ==
  /\ Len(hourly_requests) <= requests_per_hour
  /\ Len(minute_requests) <= requests_per_minute

\* The entries of a window that are older than the horizon at time `at`.
Stale(q, at, horizon) == {i \in 1..Len(q) : at - q[i] > horizon}

AtInspection(t) == pc[t] \in {"check_hour", "check_minute", "wait_time"}

\* C10 as stated: at the instant of a capacity check or wait-time
\* computation, no window holds an entry older than its horizon.
C10_NoStaleEntryAtCheckInstant ==
  \A t \in RLThreads :
    AtInspection(t) =>
      /\ Stale(hourly_requests, now, HourTicks) = {}
      /\ Stale(minute_requests, now, MinuteTicks) = {}

\* C10 as amended: at a capacity check or wait-time computation, no window
\* holds an entry older than its horizon at the clock reading of the prune
\* that the same call made before it.
C10_PrunedBeforeInspection ==
  \A t \in RLThreads :
    AtInspection(t) =>
      /\ Stale(hourly_requests, pruned_at[t], HourTicks) = {}
      /\ Stale(minute_requests, pruned_at[t], MinuteTicks) = {}

\* C10's case: a call is at its check and a request granted earlier has
\* expired from the minute window (the prune had something to remove).
C10_Witness ==
  \E t \in RLThreads :
    /\ AtInspection(t)
    /\ \E i \in 1..Len(granted) : pruned_at[t] - granted[i] > MinuteTicks
    /\ Len(minute_requests) < Len(granted)


\* The call of thread t arrived (made its prune) at the exact instant at
\* which the oldest entry of the full window q reached the horizon age.
ArrivedAtBoundary(t, q, limit, horizon) ==
  /\ Len(q) >= limit
  /\ Len(q) > 0
  /\ pruned_at[t] - Head(q) = horizon

\* C11: a call that arrives at the exact instant at which the oldest entry of
\* a full window reaches the horizon age (60 s / 3600 s) does not leave the
\* window with more entries than its capacity when it ends, whether it was
\* blocking or not.
C11_BoundaryNotDoubleCounted ==
  [][\A t \in RLThreads :
       (/\ pc[t] \in {"check_hour", "check_minute", "record"}
        /\ pc'[t] = "idle"
        /\ \/ ArrivedAtBoundary(t, minute_requests, requests_per_minute,
                                MinuteTicks)
           \/ ArrivedAtBoundary(t, hourly_requests, requests_per_hour,
                                HourTicks))
       => /\ Len(minute_requests') <= requests_per_minute
          /\ Len(hourly_requests') <= requests_per_hour]_vars

\* q2 is q without some of its oldest entries, all of them older than the
\* horizon at time `at`.
PrunedFrom(q, q2, at, horizon) ==
  \E k \in 0..Len(q) :
    /\ q2 = SubSeq(q, k + 1, Len(q))
    /\ \A i \in 1..k : at - q[i] > horizon

\* horizon - age of the oldest entry, for each window that is at capacity.
SaturatedRemainders ==
  (IF Len(hourly_requests) >= requests_per_hour
   THEN {HourTicks - (now - hourly_requests[1])} ELSE {})
  \union
  (IF Len(minute_requests) >= requests_per_minute
   THEN {MinuteTicks - (now - minute_requests[1])} ELSE {})

\* C12: get_wait_time returns 0 when neither window is at capacity after the
\* prune, otherwise the largest, over the windows at capacity, of horizon
\* minus the age of the window's oldest entry; the only change it makes to a
\* window is the removal of expired entries by its prune.
C12_GetWaitTime ==
  [][\A t \in RLThreads :
       /\ (pc[t] = "lock_gwt" /\ pc'[t] = "wait_time")
          => /\ PrunedFrom(hourly_requests, hourly_requests', now, HourTicks)
             /\ PrunedFrom(minute_requests, minute_requests', now, MinuteTicks)
       /\ (pc[t] = "wait_time" /\ pc'[t] = "idle")
          => /\ ret'[t].kind = "wait_time"
             /\ IF SaturatedRemainders = {}
                THEN ret'[t].value = 0
                ELSE /\ ret'[t].value \in SaturatedRemainders
                     /\ \A y \in SaturatedRemainders : ret'[t].value >= y
             /\ hourly_requests' = hourly_requests
             /\ minute_requests' = minute_requests]_vars

\* C12's case: a get_wait_time has returned while both windows were at
\* capacity, and the hour window's remainder, the larger one, was the result.
C12_Witness ==
  \E t \in RLThreads :
    /\ ret[t].kind = "wait_time"
    /\ pc[t] = "idle"
    /\ Len(minute_requests) >= requests_per_minute
    /\ Len(hourly_requests) >= requests_per_hour
    /\ ret[t].value > MinuteTicks

\* Thread t has called acquire(wait=False) or get_wait_time and cannot go on
\* because thread u holds the lock while it sleeps in acquire(wait=True).
BehindSleeper(t, u) ==
  /\ t # u
  /\ pc[t] \in {"lock", "lock_gwt"}
  /\ ~wait[t]
  /\ ~nested[t]
  /\ pc[u] = "sleep"
  /\ lock = u
  /\ now < wake[u]

\* C13: a non-blocking acquire and a get_wait_time return at once: no time
\* passes while such a call is held up by another thread's sleep inside a
\* blocking acquire.
C13_NonBlockingReturnsAtOnce ==
  [][now' > now => \A t, u \in RLThreads : ~BehindSleeper(t, u)]_vars

(***************************************************************************)
(* Claims about the AccountService (checked under SpecAS).                 *)
(***************************************************************************)
\* C3: when add_account fails because the construction of a client raised,
\* the registry (accounts, clients, posting_clients) is as it was before the
\* call: the account is registered nowhere.
C3_FailedAddRegistersNothing ==
  \A t \in ASThreads :
    (sres[t].op = "add_account" /\ sres[t].status = "ConstructionFailed")
      => sres[t].unchanged

\* C4: a get_client / get_posting_client for X that runs while
\* update_account(X) is in flight for a registered X succeeds (it returns
\* the old or the new client, never a not-found error).
C4_ReadersSucceedDuringUpdate ==
  \A t \in ASThreads :
    (sres[t].op \in {"get_client", "get_posting_client"} /\ sres[t].during_update)
      => sres[t].status = "ok"

\* C5: add_account for an account_id that is registered when the call takes
\* the lock fails with the already-exists error and leaves accounts, clients
\* and posting_clients as they are.
C5_DuplicateAddRejected ==
  [][\A t \in ASThreads :
       (/\ spc[t] = "add_account"
        /\ spc'[t] # "add_account"
        /\ sarg[t].account_id \in DOMAIN accounts)
       => (/\ sres'[t].status = "AlreadyExists"
           /\ spc'[t] = "idle"
           /\ UNCHANGED registry)]_vars

\* C5's case: an account was added by a successful add_account (it has both
\* its clients), and a second add_account of the same id was rejected.
C5_Witness ==
  \E t \in ASThreads :
    /\ sres[t].op = "add_account"
    /\ sres[t].status = "AlreadyExists"
    /\ sres[t].id \in DOMAIN accounts
    /\ accounts[sres[t].id].access_token > 0
    /\ sres[t].id \in DOMAIN clients
    /\ sres[t].id \in DOMAIN posting_clients
    /\ clients[sres[t].id].access_token = accounts[sres[t].id].access_token
    /\ posting_clients[sres[t].id].access_token = accounts[sres[t].id].access_token

\* C6: when update_account fails because the construction of a client
\* raised, the registry is as it was before the call (the old account value
\* and the old clients).
C6_FailedUpdateRestoresRegistry ==
  \A t \in ASThreads :
    (sres[t].op = "update_account" /\ sres[t].status = "ConstructionFailed")
      => sres[t].unchanged

\* No add_account, update_account, remove_account or update_accounts call is
\* under way: every thread is idle or inside a getter.
NoStructuralOperation ==
  \A t \in ASThreads : spc[t] \in {"idle"} \union Getters

\* C14: whenever no structural operation is in progress, accounts, clients
\* and posting_clients have the same keys: every registered account_id has
\* both its clients and no client belongs to an unregistered account_id.
C14_KeySetsEqual ==
  NoStructuralOperation =>
    /\ DOMAIN clients = DOMAIN accounts
    /\ DOMAIN posting_clients = DOMAIN accounts

\* Thread t is between the first and the last change that its add_account,
\* update_account, remove_account or update_accounts call makes to accounts,
\* clients and posting_clients.
Mutating(t) ==
  spc[t] \in {"add_mon", "add_post",
              "upd_pop_mon", "upd_pop_post", "upd_mon", "upd_post",
              "rem_mon", "rem_post",
              "ua_clear_mon", "ua_clear_post", "ua_iter", "ua_post"}

\* C15: the structural mutations of the registry are serialized: at no time
\* are two operations that change accounts, clients or posting_clients
\* (add_account, update_account, remove_account, update_accounts) both in the
\* middle of their changes.
C15_MutationsSerialized ==
  Cardinality({t \in ASThreads : Mutating(t)}) <= 1

\* C16: remove_account fails only with the not-found error, and when it has
\* removed a registered X, X is in none of accounts, clients and
\* posting_clients (the getters fail with not-found), while the entries and
\* clients of every other account are as they were when the call began.
C16_RemoveDeletesExactlyX ==
  [][\A t \in ASThreads :
       (spc[t] \in {"remove_account", "rem_post"} /\ spc'[t] = "idle")
       => /\ sres'[t].status \in {"ok", "NotFound"}
          /\ sres'[t].status = "ok"
             => LET X == sarg[t].account_id
                IN /\ X \notin DOMAIN accounts'
                   /\ X \notin DOMAIN clients'
                   /\ X \notin DOMAIN posting_clients'
                   /\ accounts' = Pop(pre[1], X)
                   /\ clients' = Pop(pre[2], X)
                   /\ posting_clients' = Pop(pre[3], X)]_vars

\* C17: update_account and remove_account for an account_id that is not
\* registered when the call takes the lock fail with the not-found error and
\* leave accounts, clients and posting_clients as they are.
C17_UnregisteredNotFound ==
  [][\A t \in ASThreads :
       (/\ spc[t] \in {"update_account", "remove_account"}
        /\ spc'[t] # spc[t]
        /\ sarg[t].account_id \notin DOMAIN accounts)
       => (/\ sres'[t].status = "NotFound"
           /\ sres'[t].op = spc[t]
           /\ spc'[t] = "idle"
           /\ UNCHANGED registry)]_vars

\* C17's case: an update_account and a remove_account of account_ids that
\* are not registered have both been rejected.
C17_Witness ==
  \E t, u \in ASThreads :
    /\ sres[t].op = "update_account"
    /\ sres[t].status = "NotFound"
    /\ sres[t].id \notin DOMAIN accounts
    /\ sres[u].op = "remove_account"
    /\ sres[u].status = "NotFound"
    /\ sres[u].id \notin DOMAIN accounts

\* add_account of the account a is under way: it has stored a in accounts
\* and has neither completed the registration nor failed yet.
AddInFlight(a) ==
  \E u \in ASThreads : spc[u] \in {"add_mon", "add_post"} /\ sarg[u] = a

\* C18: list_accounts returns the accounts registered at the instant of the
\* call: every account in accounts at that instant is in the result, and the
\* result holds no account whose add_account is still in flight (it may yet
\* end in failure).
C18_ListIsConsistent ==
  [][\A t \in ASThreads :
       (/\ spc[t] = "idle"
        /\ sres'[t] # sres[t]
        /\ sres'[t].op = "list_accounts")
       => /\ \A x \in DOMAIN accounts : accounts[x] \in sres'[t].listed
          /\ \A a \in sres'[t].listed : ~AddInFlight(a)]_vars

\* Thread t's call of op ends successfully in this step.
Succeeds(t, op) ==
  /\ spc[t] # "idle"
  /\ spc'[t] = "idle"
  /\ sres'[t].op = op
  /\ sres'[t].status = "ok"

\* C19: per account_id the registry goes unregistered -> registered ->
\* (updated)* -> unregistered: a successful add_account finds the id
\* unregistered and leaves it registered, a successful update_account finds
\* it registered and leaves it registered, a successful remove_account finds
\* it registered and leaves it unregistered, and an add_account of an
\* unregistered id is not rejected.
C19_LifeCycle ==
  [][\A t \in ASThreads :
       LET X == sarg[t].account_id
       IN /\ Succeeds(t, "add_account")
             => (X \notin DOMAIN pre[1] /\ X \in DOMAIN accounts')
          /\ Succeeds(t, "update_account")
             => (X \in DOMAIN pre[1] /\ X \in DOMAIN accounts')
          /\ Succeeds(t, "remove_account")
             => (X \in DOMAIN pre[1] /\ X \notin DOMAIN accounts')
          /\ (/\ spc[t] = "add_account"
              /\ spc'[t] # spc[t]
              /\ X \notin DOMAIN accounts)
             => spc'[t] = "add_mon"]_vars

(***************************************************************************)
(* Claims about the browser wrapper (checked under SpecBW).                *)
(***************************************************************************)
\* Each thread's loop, and the loop its run drives, was created by that
\* thread, and no loop is the loop of two threads.
LoopsArePerThread ==
  \A t \in BWThreads :
    /\ thread_local[t] # NoLoop => loop_owner[thread_local[t]] = t
    /\ cur[t] # NoLoop => (loop_owner[cur[t]] = t /\ cur[t] \notin loop_closed)
    /\ \A u \in BWThreads \ {t} :
         /\ thread_local[t] # NoLoop => thread_local[t] # thread_local[u]
         /\ cur[t] # NoLoop => cur[t] # cur[u]

\* C20: a run on a thread that has no loop, or a closed one, creates a new
\* loop owned by that thread; a run on a thread that has an open loop reuses
\* it, and the thread keeps its loop until its teardown; a run drives the
\* coroutine to its end on the calling thread's own loop; two threads never
\* share a loop.
C20_LoopPerThread ==
  [][/\ LoopsArePerThread'
     /\ \A t \in BWThreads :
          /\ (bpc[t] = "idle" /\ bpc'[t] = "run")
             => IF thread_local[t] = NoLoop \/ thread_local[t] \in loop_closed
                THEN /\ cur'[t] \notin DOMAIN loop_owner
                     /\ cur'[t] # NoLoop
                     /\ loop_owner'[cur'[t]] = t
                     /\ thread_local'[t] = cur'[t]
                ELSE /\ cur'[t] = thread_local[t]
                     /\ thread_local'[t] = thread_local[t]
          /\ (bpc[t] = "run" /\ bpc'[t] = "idle")
             => /\ bres'[t].loop = thread_local[t]
                /\ bres'[t].loop = cur[t]
                /\ bres'[t].outcome \in RunOutcomes
                /\ thread_local'[t] = thread_local[t]
          /\ (bpc'[t] = bpc[t] /\ thread_local'[t] # thread_local[t])
             => /\ thread_local'[t] = NoLoop
                /\ thread_local[t] \in loop_closed']_vars

\* C20's case: a thread has made a run that reused its loop, after a
\* teardown on one of the threads, while the other thread has a loop too.
C20_Witness ==
  \E t, u \in BWThreads :
    /\ t # u
    /\ bres[t].outcome # "none"
    /\ ~bres[t].created
    /\ bres[t].loop = thread_local[t]
    /\ thread_local[u] # NoLoop
    /\ loop_closed # {}

TornDown(t) == tres[t].outcome = "returned" /\ bpc[t] = "idle"

C23_NoRawLoopException ==
  \A t \in BWThreads :
    /\ bres[t].outcome \notin {"CancelledError", "RuntimeError"}
    /\ tres[t].outcome \in {"none", "returned"}

\* The loop state of thread u: its handle, the loop current on it, the loop
\* its run uses, and the loops it made with their closed and pending status.
LoopState(u) ==
  LET mine == {l \in DOMAIN loop_owner : loop_owner[l] = u}
  IN  <<thread_local[u], asyncio_loop[u], cur[u], mine,
        mine \cap loop_closed, mine \cap pending>>

\* Thread t is the one taking the step.
Acts(t) ==
  \/ bpc'[t] # bpc[t]
  \/ tres'[t] # tres[t]
  \/ bres'[t] # bres[t]

\* A caller in the middle of an acquire or of a registry operation can take
\* its next step, or waits for a lock whose holder can take its next step.
CanProceed ==
  /\ \A u \in RLThreads :
       pc[u] # "idle" =>
         \/ ENABLED AcquireStep(u)
         \/ /\ pc[u] = "lock"
            /\ lock \in RLThreads \ {u}
            /\ ENABLED AcquireStep(lock)
  /\ \A u \in ASThreads :
       spc[u] # "idle" => ENABLED (AddAccountStep(u) \/ GetRead(u))

\* C24: loop state is private to a thread: a step of the browser wrapper on
\* thread t leaves the handle, the current loop, the running loop and the
\* closed and pending status of the loops of every other thread as they were;
\* and while a run is under way on some thread (its coroutine suspended), a
\* caller of acquire(wait=False) or of a registry operation on another thread
\* can always take its next step, so it completes.
C24_LoopsPrivateAndNonBlocking ==
  /\ [](Suspended => CanProceed)
  /\ [][\A t, u \in BWThreads :
          (t # u /\ Acts(t)) => LoopState(u)' = LoopState(u)]_vars

\* C24 witness: w1's run is under way on a loop of its own, w2 holds another
\* loop which is still open, and during the run t1's non-blocking acquire was
\* granted and a1's add_account registered X.
C24_Witness ==
  /\ bpc["w1"] = "run"
  /\ thread_local["w2"] # NoLoop
  /\ thread_local["w2"] # cur["w1"]
  /\ thread_local["w2"] \notin loop_closed
  /\ pc["t1"] = "idle"
  /\ ret["t1"].kind = "granted"
  /\ spc["a1"] = "idle"
  /\ sres["a1"].op = "add_account"
  /\ sres["a1"].status = "ok"
  /\ "X" \in DOMAIN accounts

\* C25: when the remote call of verify_account ended with RetryError whose
\* last attempt holds an exception, verify_account raised AccountError, the
\* message contains that exception's own text, and when the exception carries
\* an error code and an error subcode the message contains both numbers.
C25_ExhaustionKeepsDiagnostics ==
  \A t \in VAThreads :
    (vres[t].raised.kind = "RetryError" /\ vres[t].raised.last = "exception")
    => LET e == vres[t].raised.exc
       IN  /\ vres[t].status = "AccountError"
           /\ \E i \in DOMAIN vres[t].text : vres[t].text[i] = e.text
           /\ (e.error_code # NoCode /\ e.error_subcode # NoCode)
              => /\ \E i \in DOMAIN vres[t].numbers :
                      vres[t].numbers[i] = e.error_code
                 /\ \E i \in DOMAIN vres[t].numbers :
                      vres[t].numbers[i] = e.error_subcode

\* C25 witness: retries were exhausted on an InstagramAPIError with code 190
\* and subcode 460, and the AccountError raised shows the text, 190 and 460.
C25_Witness ==
  \E t \in VAThreads :
    /\ vpc[t] = "idle"
    /\ vres[t].status = "AccountError"
    /\ vres[t].raised.kind = "RetryError"
    /\ vres[t].raised.last = "exception"
    /\ vres[t].raised.exc.error_code = 190
    /\ vres[t].raised.exc.error_subcode = 460
    /\ vres[t].numbers = <<190, 460>>
    /\ vres[t].text[2] = vres[t].raised.exc.text

\* C26: the monitoring client and the posting client are limited
\* independently, however the service was constructed: an acquisition through
\* one of them leaves alone what the limiter of the other has granted.
C26_IndependentLimiters ==
  [][\A kind, other \in ClientKinds :
       (kind # other /\ last_via'[2] = kind /\ consumed' # consumed
        /\ LimiterOf(other) # NoLimiter)
       => consumed'[LimiterOf(other)] = consumed[LimiterOf(other)]]_vars

\* The ways a registry operation ends that are a success or an AccountError.
TypedOutcomes == {"none", "ok", "AlreadyExists", "NotFound", "ConstructionFailed"}

\* C27: every registry operation ends in success or in AccountError: no
\* caller receives an exception of another type.
C27_OnlyAccountErrorReachesCaller ==
  \A t \in ASThreads : sres[t].status \in TypedOutcomes

\* A get_proxy_url call of thread t has returned.
GotProxyUrl(t) == pres[t].op = "get_proxy_url" /\ pres[t].status = "ok"

\* The step stores a URL for id on behalf of a call that saw no entry for id.
FirstResolution(id) ==
  \E t \in PMThreads :
    /\ ppc[t] = "store"
    /\ ppc'[t] # "store"
    /\ pcall[t].id = id
    /\ ~pcall[t].started_cached

\* No step removes an entry of the cache, and an entry changes only by the
\* store of a call that began before the entry was there.
CacheAppendOnly ==
  \A id \in DOMAIN proxy_cache :
    /\ id \in DOMAIN proxy_cache'
    /\ proxy_cache'[id] # proxy_cache[id] => FirstResolution(id)

\* C28 as stated: none for a disabled proxy, also when a URL is cached; for an
\* enabled proxy the call returns a URL and the cache holds it; and the cache
\* is append-only.
C28_ReturnsAndCachesUrl ==
  /\ [](\A t \in PMThreads :
          GotProxyUrl(t) =>
            /\ ~pres[t].enabled => pres[t].value = NoneUrl
            /\ pres[t].enabled =>
                 /\ pres[t].value # NoneUrl
                 /\ pres[t].stored = pres[t].value)
  /\ [][CacheAppendOnly]_vars

\* C28 amended: none for a disabled proxy, also when a URL is cached; for an
\* enabled proxy the call returns the cached URL or, without one, the
\* account's proxy_url, and when that is a URL the cache holds it on return
\* (an enabled proxy without URL gives none and no entry); no step removes an
\* entry, and no call that begins after an entry is there changes it.
C28_ReturnsAndCachesResolvedUrl ==
  /\ [](\A t \in PMThreads :
          GotProxyUrl(t) =>
            /\ ~pres[t].enabled => pres[t].value = NoneUrl
            /\ pres[t].enabled =>
                 /\ pres[t].value # NoneUrl => pres[t].stored = pres[t].value
                 /\ pres[t].value = NoneUrl =>
                      /\ ~pres[t].started_cached
                      /\ pres[t].resolved = NoneUrl
                 /\ (~pres[t].started_cached /\ pres[t].value # NoneUrl)
                      => pres[t].resolved = pres[t].value)
  /\ [][CacheAppendOnly]_vars

\* C28 witness: a call for an account whose proxy was disabled after its URL
\* had been cached returned none, and the entry is still in the cache.
C28_Witness ==
  \E t \in PMThreads :
    /\ GotProxyUrl(t)
    /\ ~pres[t].enabled
    /\ pres[t].started_cached
    /\ pres[t].value = NoneUrl
    /\ pres[t].id \in DOMAIN proxy_cache
    /\ proxy_cache[pres[t].id] = pres[t].stored

\* C29: verify_proxy never raises: whatever account_id it is called with, it
\* returns true or false.
C29_VerifyProxyNeverRaises ==
  \A t \in PMThreads : pres[t].op = "verify_proxy" => pres[t].status # "ProxyError"

\* C30: verify_all_proxies returns a map with one boolean for every account
\* of the manager, the failed probes as false: a failed probe does not end
\* the batch.
C30_OneVerdictPerAccount ==
  \A t \in PMThreads :
    (pres[t].op = "verify_all_proxies" /\ pres[t].status # "none")
    => /\ pres[t].status = "ok"
       /\ DOMAIN pres[t].results = DOMAIN pm_accounts
       /\ \A id \in DOMAIN pres[t].results : pres[t].results[id] \in BOOLEAN
       /\ \A id \in pres[t].failed : pres[t].results[id] = FALSE

\* C30 witness: the probe of the first account failed, and the map returned
\* has false for it and true for the second account.
C30_Witness ==
  \E t \in PMThreads :
    /\ pres[t].op = "verify_all_proxies"
    /\ pres[t].status = "ok"
    /\ pres[t].failed = {"X"}
    /\ DOMAIN pres[t].results = {"X", "Y"}
    /\ pres[t].results["X"] = FALSE
    /\ pres[t].results["Y"] = TRUE
    /\ pm_accounts["Y"].enabled
    /\ pm_accounts["Y"].proxy_url # NoneUrl

(***************************************************************************)
(* Further claims about the RateLimiter (checked under SpecRL).            *)
(***************************************************************************)
\* C34: acquire(wait=True) goes on to record the request only when both
\* windows have room for it: it is at "Record this request" with neither the
\* hour window nor the minute window at its limit, and so returns True with
\* the request within both limits.
C34_WaitingAcquireGrantsWithinLimits ==
  \A t \in RLThreads :
    (pc[t] = "record" /\ wait[t]) => (~HourSaturated /\ ~MinuteSaturated)

\* q is ordered by non-decreasing timestamp.
NonDecreasing(q) == \A i \in 1..(Len(q) - 1) : q[i] <= q[i + 1]

\* m is the tail of h: its last Len(m) entries.
IsSuffix(m, h) ==
  /\ Len(m) <= Len(h)
  /\ \A i \in 1..Len(m) : m[i] = h[Len(h) - Len(m) + i]

\* C39: both windows are ordered by non-decreasing timestamp, and the minute
\* window is a suffix of the hour window.
C39_MinuteWindowIsSuffixOfHourWindow ==
  /\ NonDecreasing(hourly_requests)
  /\ NonDecreasing(minute_requests)
  /\ IsSuffix(minute_requests, hourly_requests)

\* C39 witness: after a prune and a grant the minute window holds the newest
\* timestamp only, and the hour window holds an older one before it.
C39_Witness ==
  /\ Len(minute_requests) = 1
  /\ Len(hourly_requests) = 2
  /\ hourly_requests[1] < hourly_requests[2]
  /\ minute_requests[1] = hourly_requests[2]
  /\ Len(granted) = 2

(***************************************************************************)
(* Further claims about the AccountService.                                *)
(***************************************************************************)
\* C35: a get_client(X) or get_posting_client(X) that runs during
\* update_accounts(L), with X registered before and X in L, does not fail: it
\* returns X's old client or X's new client.
C35_ReadersSucceedDuringBulkUpdate ==
  \A t \in ASThreads :
    sres[t].op \in {"get_client", "get_posting_client"}
      => /\ sres[t].status = "ok"
         /\ sres[t].value.access_token \in {0, 1}

\* Thread t is inside the with self.lock block of add_account, update_account
\* or remove_account.
InLockedSection(t) ==
  spc[t] \in {"add_mon", "add_post",
              "upd_pop_mon", "upd_pop_post", "upd_mon", "upd_post",
              "rem_mon", "rem_post"}

\* A step of thread t inside its with self.lock block.
LockedStep(t) ==
  \/ AddMon(t) \/ AddPost(t)
  \/ UpdPopMon(t) \/ UpdPopPost(t) \/ UpdMon(t) \/ UpdPost(t)
  \/ RemMon(t) \/ RemPost(t)

\* C40: the registry lock is held only by a thread that is inside
\* add_account, update_account or remove_account: when such a call has ended,
\* normally or with already-exists, not-found or a construction failure, the
\* lock is free again; and the holder of the lock can always take its next
\* step, so a thread waiting for the lock is not blocked forever.
C40_LockReleasedOnEveryExit ==
  /\ \A t \in ASThreads : svc_lock = t => InLockedSection(t)
  /\ (\A t \in ASThreads : ~InLockedSection(t)) => svc_lock = NoThread
  /\ \A t \in ASThreads : svc_lock = t => ENABLED LockedStep(t)

\* C40 witness: a1's add_account failed in the construction of a client, and
\* a2, which called a structural operation afterwards, holds the lock.
C40_Witness ==
  /\ spc["a1"] = "idle"
  /\ sres["a1"].op = "add_account"
  /\ sres["a1"].status = "ConstructionFailed"
  /\ svc_lock = "a2"
  /\ InLockedSection("a2")

(***************************************************************************)
(* Claims about the BrowserSessionManager (checked under SpecSM).          *)
(***************************************************************************)
LoadReturned == sm_res.op = "load_session"
SaveReturned == sm_res.op = "save_session"

\* C31 as stated: load_session(A) returns False and adds nothing when nothing
\* was saved for A; after save_session(A) with the cookie set C it returns
\* True and adds exactly C; and a save for A leaves the files of the other
\* accounts as they are.
C31_KeyedRoundTrip ==
  /\ (LoadReturned /\ ~sm_res.save.called /\ sm_res.file_before = NoFile)
       => (sm_res.ret = "False" /\ sm_res.ctx_after = sm_res.ctx_before)
  /\ (LoadReturned /\ sm_res.save.called)
       => /\ sm_res.ret = "True"
          /\ sm_res.ctx_after = sm_res.ctx_before \union sm_res.save.cookies
  /\ SaveReturned => sm_res.others_kept

\* C31 amended: as above when the save wrote its file and the context accepts
\* the cookies.  A save that failed returns all the same; the load after it
\* returns False and adds nothing, or restores the cookie set stored before
\* when the failed save left the old file as it was.
C31_RoundTripOfWrittenSessions ==
  /\ (LoadReturned /\ ~sm_res.save.called /\ sm_res.file_before = NoFile)
       => (sm_res.ret = "False" /\ sm_res.ctx_after = sm_res.ctx_before)
  /\ (LoadReturned /\ sm_res.save.called /\ sm_res.save.written
      /\ sm_res.failed_at # "add_cookies")
       => /\ sm_res.ret = "True"
          /\ sm_res.ctx_after = sm_res.ctx_before \union sm_res.save.cookies
  /\ (LoadReturned /\ sm_res.ret = "True")
       => /\ sm_res.file_before.state = "ok"
          /\ sm_res.ctx_after =
               sm_res.ctx_before \union sm_res.file_before.cookies
  /\ (LoadReturned /\ sm_res.ret # "True")
       => sm_res.ctx_after = sm_res.ctx_before
  /\ SaveReturned => sm_res.others_kept

\* C31 witness: the session saved for X with the cookies {c1} was loaded into
\* a context that held c2: the load returned True, the context holds both,
\* and the session stored for Y is another one.
C31_Witness ==
  /\ LoadReturned
  /\ sm_res.account_id = "X"
  /\ sm_res.ret = "True"
  /\ sm_res.save.written
  /\ sm_res.save.cookies = {"c1"}
  /\ sm_res.ctx_before = {"c2"}
  /\ sm_res.ctx_after = {"c1", "c2"}
  /\ session_files[SessionFile("Y")].state = "ok"
  /\ session_files[SessionFile("Y")].cookies = {"c2"}

ProbedInOrder ==
  \A i \in 1..Len(li_probed) : li_probed[i].selector = Indicators[i]

\* The positions of the logged-in indicators that matched.
Matches ==
  {i \in 1..Len(li_probed) :
     i <= Len(logged_in_indicators) /\ li_probed[i].outcome = "element"}

MarkedOn ==
  {d \in Days : <<dt_res.account_id, d, dt_res.comment_id>> \in marked}

\* C36: is_comment_processed(A, c) returns True whenever
\* mark_comment_processed(A, c) was called within the last 7 days, also after
\* the UTC date changed, and False when (A, c) was never marked.
C36_MarkedStaysProcessed ==
  dt_res.op = "is_comment_processed"
    => /\ (\E d \in MarkedOn : dt_res.day - d <= RetentionDays) => dt_res.ret
       /\ MarkedOn = {} => ~dt_res.ret

(***************************************************************************)
(* Claims about the BrowserManager (checked under SpecBM).                 *)
(***************************************************************************)
\* C37: after close_all has returned, browsers, contexts and pages are all
\* empty and the Playwright instance is stopped.
C37_CloseAllLeavesNothing ==
  bm_res.op = "close_all"
    => /\ browsers = {}
       /\ contexts = {}
       /\ pages = {}
       /\ playwright_instance = "none"

(***************************************************************************)
(* Claims about the RetryPolicy (checked under SpecRP).                    *)
(***************************************************************************)
\* C33: under a 3-attempt policy a call that fails with a transient error on
\* attempts 1 and 2 and succeeds on attempt 3 returns the success result with
\* attempts = 3 recorded; and no policy makes more than its N attempts.
C33_ThirdAttemptSucceeds ==
  /\ Len(rp_attempts) <= rp_n
  /\ rp_outcome.attempts <= rp_n
  /\ (/\ rp_n = 3
      /\ Len(rp_attempts) = 3
      /\ rp_attempts[1] \in TransientErrors
      /\ rp_attempts[2] \in TransientErrors
      /\ rp_attempts[3] = "success")
       => /\ rp_pc = "done"
          /\ rp_outcome.status = "success"
          /\ rp_outcome.attempts = 3

\* C33 witness: the call under the 3-attempt policy has ended after two
\* transient failures and a success.
C33_Witness ==
  /\ rp_pc = "done"
  /\ rp_n = 3
  /\ rp_attempts = <<"timeout", "server_5xx", "success">>
  /\ rp_outcome.status = "success"
  /\ rp_outcome.attempts = 3

====
